---- MODULE Spec2Model ----
(***************************************************************************)
(* Obsidian-Anki bridge: the flashcard parser (vault-reader.ts), the       *)
(* identity generator (uid.ts), the AnkiConnect client (anki-client.ts)    *)
(* and the tool handlers flashcard_parse / flashcard_sync.                 *)
(*                                                                         *)
(* Text is modelled at line granularity: a text is a sequence of lines, a  *)
(* line is a string of a small alphabet, and the regular expressions of    *)
(* the source are the classification operators below.  s.split('\n') is    *)
(* the sequence itself, lines.join('\n') is the sequence again, and        *)
(* trim() drops the blank lines at both ends.  JavaScript indices are      *)
(* kept 0-based (At, Slice).                                               *)
(***************************************************************************)
EXTENDS Integers, Sequences, FiniteSets, TLC

\* ------------------------------------------------------------------ bounds
\* longest document body, in lines
MaxLines == 5

\* longest filePath argument, in characters
MaxPathLen == 7

\* sync requests in one behaviour
MaxRuns == 2

\* flashcard_sync requests the server may hold at one time
MaxRequests == 2

\* longest front or back text handed to generateUid, in characters
MaxTextLen == 3

MaxRenderLen == 6

\* ---------------------------------------------------------- line alphabet
LineAlphabet ==
  {"", "---", "Question", "Answer", "> [!flashcard]", "> Q: Question",
   "> A: Answer", "## Question"}

At(lines, i) == lines[i + 1]

Slice(lines, a, b) == SubSeq(lines, a + 1, b)

\* line.trim() === ''
IsBlank(l) == l = ""

\* /^---+$/.test(line.trim())
IsSeparator(l) == l \in {"---", "----", "-----"}

\* /^>\s*\[!flashcard\]/i.test(line)
IsCalloutOpen(l) == l = "> [!flashcard]"

\* line.startsWith('>')
StartsWithQuote(l) == l \in {"> [!flashcard]", "> Q: Question", "> A: Answer"}

\* line.substring(1).trim()
QuoteContent(l) ==
  CASE l = "> [!flashcard]" -> "[!flashcard]"
    [] l = "> Q: Question" -> "Q: Question"
    [] l = "> A: Answer" -> "A: Answer"
    [] OTHER -> l

\* /^Q:/i.test(line) and /^A:/i.test(line)
IsQuestionMarker(c) == c = "Q: Question"

IsAnswerMarker(c) == c = "A: Answer"

\* line.substring(2).trim()
AfterMarker(c) ==
  CASE c = "Q: Question" -> "Question"
    [] c = "A: Answer" -> "Answer"
    [] OTHER -> c

\* lines[i].match(/^##\s+(.+)$/)
IsH2(l) == l = "## Question"

\* headingMatch[1].trim()
HeadingText(l) == IF l = "## Question" THEN "Question" ELSE l

\* line.startsWith('#')
StartsWithHash(l) == l \in {"## Question", "# Title", "### Sub"}

RECURSIVE TrimLeft(_)
TrimLeft(t) == IF t # <<>> /\ Head(t) = "" THEN TrimLeft(Tail(t)) ELSE t

RECURSIVE TrimRight(_)
TrimRight(t) ==
  IF t # <<>> /\ t[Len(t)] = "" THEN TrimRight(SubSeq(t, 1, Len(t) - 1)) ELSE t

\* String.prototype.trim on a joined text
Trim(t) == TrimRight(TrimLeft(t))

\* a JavaScript string is falsy when it is empty
IsEmptyText(t) == t = <<>> \/ t = <<"">>

\* ------------------------------------------------- the three strategies
RECURSIVE FrontStart(_, _)
FrontStart(lines, fs) ==
  IF fs > 0 /\ ~IsBlank(At(lines, fs - 1)) /\ ~IsSeparator(At(lines, fs - 1))
  THEN FrontStart(lines, fs - 1)
  ELSE fs

RECURSIVE BackEnd(_, _)
BackEnd(lines, be) ==
  IF be < Len(lines) /\ ~IsBlank(At(lines, be)) /\ ~IsSeparator(At(lines, be))
  THEN BackEnd(lines, be + 1)
  ELSE be

RECURSIVE SeparatorLoop(_, _, _, _)
SeparatorLoop(lines, startLine, i, cards) ==
  IF i >= Len(lines) THEN cards
  ELSE IF IsSeparator(At(lines, i)) /\ i > 0
  THEN LET frontStart == FrontStart(lines, i - 1)
           front == Trim(Slice(lines, frontStart, i))
           backEnd == BackEnd(lines, i + 1)
           back == Trim(Slice(lines, i + 1, backEnd))
       IN SeparatorLoop(lines, startLine, backEnd,
            IF ~IsEmptyText(front) /\ ~IsEmptyText(back)
            THEN Append(cards, [front |-> front, back |-> back,
                                line |-> startLine + frontStart])
            ELSE cards)
  ELSE SeparatorLoop(lines, startLine, i + 1, cards)

parseSeparatorFormat(lines, startLine) ==
  SeparatorLoop(lines, startLine, 0, <<>>)

\* the inner loop of parseCalloutFormat: st = [i, front, back, inFront, inBack]
RECURSIVE CalloutBody(_, _)
CalloutBody(lines, st) ==
  IF st.i < Len(lines) /\ StartsWithQuote(At(lines, st.i))
  THEN LET line == QuoteContent(At(lines, st.i))
       IN CalloutBody(lines,
            IF IsQuestionMarker(line)
            THEN [st EXCEPT !.i = @ + 1, !.inFront = TRUE, !.inBack = FALSE,
                            !.front = <<AfterMarker(line)>>]
            ELSE IF IsAnswerMarker(line)
            THEN [st EXCEPT !.i = @ + 1, !.inFront = FALSE, !.inBack = TRUE,
                            !.back = <<AfterMarker(line)>>]
            ELSE IF st.inFront
            THEN [st EXCEPT !.i = @ + 1, !.front = Append(@, line)]
            ELSE IF st.inBack
            THEN [st EXCEPT !.i = @ + 1, !.back = Append(@, line)]
            ELSE [st EXCEPT !.i = @ + 1])
  ELSE st

RECURSIVE CalloutLoop(_, _, _, _)
CalloutLoop(lines, startLine, i, cards) ==
  IF i >= Len(lines) THEN cards
  ELSE IF IsCalloutOpen(At(lines, i))
  THEN LET st == CalloutBody(lines, [i |-> i + 1, front |-> <<>>, back |-> <<>>,
                                     inFront |-> FALSE, inBack |-> FALSE])
       IN CalloutLoop(lines, startLine, st.i,
            IF ~IsEmptyText(st.front) /\ ~IsEmptyText(st.back)
            THEN Append(cards, [front |-> Trim(st.front), back |-> Trim(st.back),
                                line |-> startLine + i])
            ELSE cards)
  ELSE CalloutLoop(lines, startLine, i + 1, cards)

parseCalloutFormat(lines, startLine) == CalloutLoop(lines, startLine, 0, <<>>)

RECURSIVE HeadingEnd(_, _)
HeadingEnd(lines, j) ==
  IF j < Len(lines) /\ ~StartsWithHash(At(lines, j))
  THEN HeadingEnd(lines, j + 1)
  ELSE j

RECURSIVE HeadingLoop(_, _, _, _)
HeadingLoop(lines, startLine, i, cards) ==
  IF i >= Len(lines) THEN cards
  ELSE IF IsH2(At(lines, i))
  THEN LET front == <<HeadingText(At(lines, i))>>
           j == HeadingEnd(lines, i + 1)
           back == Trim(Slice(lines, i + 1, j))
       IN HeadingLoop(lines, startLine, j,
            IF ~IsEmptyText(front) /\ ~IsEmptyText(back)
            THEN Append(cards, [front |-> front, back |-> back,
                                line |-> startLine + i])
            ELSE cards)
  ELSE HeadingLoop(lines, startLine, i + 1, cards)

parseHeadingFormat(lines, startLine) == HeadingLoop(lines, startLine, 0, <<>>)

\* ------------------------------------------------------------ configuration
\* config.deckPrefix (DECK_PREFIX, default 'Rina')
deckPrefix == "Rina"

\* the entries of the SUBJECT_TO_DECK literal (four of the twelve are kept):
\* a lookup that sees the literal's own keys only
SubjectDeckNameOwnKeys(code) ==
  CASE code = "MATH" -> "Mathematics"
    [] code = "BIOL" -> "Biology"
    [] code = "PHYS" -> "Physics"
    [] code = "CHEM" -> "Chemistry"
    [] OTHER -> code

\* SUBJECT_TO_DECK[code] || code.  SUBJECT_TO_DECK is a plain object literal,
\* so the bracket lookup also finds the members every object inherits:
\* 'constructor' yields the Object function, which is truthy, and join('::')
\* then writes its text into the deck name.
SubjectDeckName(code) ==
  CASE code = "MATH" -> "Mathematics"
    [] code = "BIOL" -> "Biology"
    [] code = "PHYS" -> "Physics"
    [] code = "CHEM" -> "Chemistry"
    [] code = "constructor" -> "function Object() { [native code] }"
    [] OTHER -> code

\* ------------------------------------------------------ metadata block
\* A field that is absent holds "" (both are falsy in the source's tests);
\* present says whether the file starts with a metadata block at all.
\* wellFormed says whether the block is valid YAML.
NoMeta ==
  [present |-> FALSE, wellFormed |-> TRUE, anki_deck |-> "", scope |-> "",
   subject |-> "", tags |-> <<>>, updated |-> ""]

\* matter(content): the YAML engine throws on a block it cannot parse, and
\* neither gray-matter nor parseFlashcardFile catches it
matterThrows(doc) == doc.meta.present /\ ~doc.meta.wellFormed

\* FlashcardFrontmatterSchema.safeParse(raw): success ? data : {}
ValidateFrontmatter(meta) ==
  IF meta.scope \in {"", "KS3", "GCSE", "ALEV"}
  THEN meta
  ELSE [NoMeta EXCEPT !.present = meta.present]

\* the lines of the metadata block between its two '---' delimiters
FmLines(meta) ==
  (IF meta.anki_deck # "" THEN <<"anki_deck: " \o meta.anki_deck>> ELSE <<>>)
  \o (IF meta.scope # "" THEN <<"scope: " \o meta.scope>> ELSE <<>>)
  \o (IF meta.subject # "" THEN <<"subject: " \o meta.subject>> ELSE <<>>)
  \o (IF meta.tags # <<>> THEN <<"tags: [..]">> ELSE <<>>)
  \o (IF meta.updated # "" THEN <<"updated: " \o meta.updated>> ELSE <<>>)

\* the file as readFileSync returns it, split on '\n'
RawLines(doc) ==
  IF doc.meta.present
  THEN <<"---">> \o FmLines(doc.meta) \o <<"---">> \o doc.body
  ELSE doc.body

RECURSIVE ClosingDelimiter(_, _)
ClosingDelimiter(lines, i) ==
  IF i >= Len(lines) THEN -1
  ELSE IF At(lines, i) = "---" THEN i
  ELSE ClosingDelimiter(lines, i + 1)

\* a content start that ignores the metadata block
getContentStartLineNoOffset(doc) == 1

getContentStartLine(doc) ==
  LET lines == RawLines(doc)
  IN IF lines = <<>> \/ At(lines, 0) # "---" THEN 1
     ELSE LET i == ClosingDelimiter(lines, 1)
          IN IF i >= 0 THEN i + 2 ELSE 1

\* a resolution that leaves the configured root out of the constructed name
resolveDeckNoPrefix(frontmatter) ==
  IF frontmatter.anki_deck # "" THEN frontmatter.anki_deck
  ELSE IF frontmatter.scope # "" /\ frontmatter.subject # ""
       THEN frontmatter.scope \o "::" \o SubjectDeckName(frontmatter.subject)
       ELSE IF frontmatter.scope # "" THEN frontmatter.scope
       ELSE IF frontmatter.subject # "" THEN SubjectDeckName(frontmatter.subject)
       ELSE ""

resolveDeck(frontmatter) ==
  IF frontmatter.anki_deck # "" THEN frontmatter.anki_deck
  ELSE deckPrefix
       \o (IF frontmatter.scope # "" THEN "::" \o frontmatter.scope ELSE "")
       \o (IF frontmatter.subject # ""
           THEN "::" \o SubjectDeckName(frontmatter.subject) ELSE "")

normalizeTagsArray(tags) == tags

\* ------------------------------------------------------------- identity
\* normalizeContent: trim, then collapse runs of newlines (blank lines go)
normalizeContent(text) == SelectSeq(Trim(text), LAMBDA l : l # "")

\* sourceFile.toLowerCase().replace(/\\/g, '/')
LowerChar(c) ==
  CASE c = "A" -> "a"
    [] c = "B" -> "b"
    [] c = "V" -> "v"
    [] c = "\\" -> "/"
    [] OTHER -> c

normalizePath(p) == [k \in 1..Len(p) |-> LowerChar(p[k])]

\* `${normalizedPath}::${normalizedFront}::${normalizedBack}`
UidInput(front, back, sourceFile) ==
  <<normalizePath(sourceFile), "::">> \o normalizeContent(front)
    \o <<"::">> \o normalizeContent(back)

\* sha256(input).substring(0, 16), taken as collision free on the inputs met
generateUid(front, back, sourceFile) ==
  [sha256_16 |-> UidInput(front, back, sourceFile)]

\* The same functions character by character, for texts in which blanks,
\* tabs, line endings and colons matter.
IsSpaceChar(c) == c \in {" ", "\t", "\n", "\r"}

RECURSIVE TrimCharsLeft(_)
TrimCharsLeft(t) ==
  IF t # <<>> /\ IsSpaceChar(Head(t)) THEN TrimCharsLeft(Tail(t)) ELSE t

RECURSIVE TrimCharsRight(_)
TrimCharsRight(t) ==
  IF t # <<>> /\ IsSpaceChar(t[Len(t)])
  THEN TrimCharsRight(SubSeq(t, 1, Len(t) - 1)) ELSE t

\* text.trim()
TrimChars(t) == TrimCharsRight(TrimCharsLeft(t))

\* .replace(/\r\n/g, '\n')
RECURSIVE ReplaceCrLf(_)
ReplaceCrLf(t) ==
  IF t = <<>> THEN <<>>
  ELSE IF Len(t) >= 2 /\ t[1] = "\r" /\ t[2] = "\n"
  THEN <<"\n">> \o ReplaceCrLf(SubSeq(t, 3, Len(t)))
  ELSE <<Head(t)>> \o ReplaceCrLf(Tail(t))

\* .replace(/\r/g, '\n')
ReplaceCr(t) == [k \in 1..Len(t) |-> IF t[k] = "\r" THEN "\n" ELSE t[k]]

\* t without its leading characters of the set S
RECURSIVE DropWhileIn(_, _)
DropWhileIn(t, S) == IF t # <<>> /\ Head(t) \in S THEN DropWhileIn(Tail(t), S) ELSE t

\* .replace(/[ \t]+/g, ' ')
RECURSIVE CollapseBlanks(_)
CollapseBlanks(t) ==
  IF t = <<>> THEN <<>>
  ELSE IF Head(t) \in {" ", "\t"}
  THEN <<" ">> \o CollapseBlanks(DropWhileIn(t, {" ", "\t"}))
  ELSE <<Head(t)>> \o CollapseBlanks(Tail(t))

\* .replace(/\n+/g, '\n')
RECURSIVE CollapseNewlines(_)
CollapseNewlines(t) ==
  IF t = <<>> THEN <<>>
  ELSE IF Head(t) = "\n"
  THEN <<"\n">> \o CollapseNewlines(DropWhileIn(t, {"\n"}))
  ELSE <<Head(t)>> \o CollapseNewlines(Tail(t))

normalizeContentChars(text) ==
  CollapseNewlines(CollapseBlanks(ReplaceCr(ReplaceCrLf(TrimChars(text)))))

\* `${normalizedPath}::${normalizedFront}::${normalizedBack}`
UidInputChars(front, back, sourceFile) ==
  normalizePath(sourceFile) \o <<":", ":">> \o normalizeContentChars(front)
    \o <<":", ":">> \o normalizeContentChars(back)

\* sha256(input).substring(0, 16), taken as collision free on the inputs met
generateUidChars(front, back, sourceFile) ==
  [sha256_16 |-> UidInputChars(front, back, sourceFile)]

\* ------------------------------------------------------------- rendering
\* marked.parse with breaks: a paragraph whose lines are joined by <br>
markdownToHtml(text) == <<"<p>">> \o text \o <<"</p>">>

processObsidianSyntax(text) == markdownToHtml(text)

\* ------------------------------------------- rendering, character by character
\* A text is a sequence of one-character strings; the markup a stage writes
\* is one token per tag, so that a later stage sees it as text without
\* brackets.
vaultName == "Vault"

IsChar(t, i, c) == IF i >= 1 /\ i <= Len(t) THEN t[i] = c ELSE FALSE

\* the first index from i on that holds a character of stop, or Len(t) + 1
RECURSIVE RunEnd(_, _, _)
RunEnd(t, i, stop) ==
  IF i > Len(t) THEN i
  ELSE IF t[i] \in stop THEN i
  ELSE RunEnd(t, i + 1, stop)

RECURSIVE ConcatStr(_)
ConcatStr(t) == IF t = <<>> THEN "" ELSE Head(t) \o ConcatStr(Tail(t))

\* escapeHtml, one character at a time
escapeHtmlChar(c) ==
  CASE c = "&" -> "&amp;"
    [] c = "<" -> "&lt;"
    [] c = ">" -> "&gt;"
    [] c = "\"" -> "&quot;"
    [] c = "'" -> "&#39;"
    [] OTHER -> c

escapeHtml(t) == [i \in 1..Len(t) |-> escapeHtmlChar(t[i])]

\* encodeURIComponent on the characters of the alphabet
encodeURIComponentChar(c) ==
  CASE c = "[" -> "%5B"
    [] c = "]" -> "%5D"
    [] c = "|" -> "%7C"
    [] c = "&" -> "%26"
    [] c = "#" -> "%23"
    [] OTHER -> c

encodeURIComponent(t) == [i \in 1..Len(t) |-> encodeURIComponentChar(t[i])]

\* parts[parts.length - 1] of target.split('#')
RECURSIVE AfterLastHash(_)
AfterLastHash(t) ==
  IF t = <<>> THEN <<>>
  ELSE IF t[Len(t)] = "#" THEN <<>>
  ELSE Append(AfterLastHash(SubSeq(t, 1, Len(t) - 1)), t[Len(t)])

NoMatch == [ok |-> FALSE, end |-> 0, target |-> <<>>, display |-> <<>>]

\* /\[\[([^\]|]+)(?:\|([^\]]+))?\]\]/ tried at index i. Both groups are
\* greedy runs that end at the first character they exclude, so giving
\* characters back never leads to a match.
WikilinkAt(t, i) ==
  IF ~(IsChar(t, i, "[") /\ IsChar(t, i + 1, "[")) THEN NoMatch
  ELSE LET e1 == RunEnd(t, i + 2, {"]", "|"})
       IN IF e1 = i + 2 THEN NoMatch
          ELSE IF IsChar(t, e1, "|")
          THEN LET e2 == RunEnd(t, e1 + 1, {"]"})
               IN IF e2 > e1 + 1 /\ IsChar(t, e2, "]") /\ IsChar(t, e2 + 1, "]")
                  THEN [ok |-> TRUE, end |-> e2 + 2,
                        target |-> SubSeq(t, i + 2, e1 - 1),
                        display |-> SubSeq(t, e1 + 1, e2 - 1)]
                  ELSE NoMatch
          ELSE IF IsChar(t, e1, "]") /\ IsChar(t, e1 + 1, "]")
          THEN [ok |-> TRUE, end |-> e1 + 2,
                target |-> SubSeq(t, i + 2, e1 - 1), display |-> <<>>]
          ELSE NoMatch

AnchorOpen(target) ==
  "<a href=\"obsidian://open?vault=" \o vaultName \o "&file="
    \o ConcatStr(encodeURIComponent(target)) \o "\">"

\* the replacement callback of convertWikilinks
Anchor(target, display) ==
  LET label == IF display # <<>> THEN display
               ELSE IF "#" \in {target[i] : i \in 1..Len(target)}
               THEN AfterLastHash(target)
               ELSE target
  IN <<AnchorOpen(target)>> \o escapeHtml(label) \o <<"</a>">>

\* text.replace(wikilinkPattern, ...) from index i on
RECURSIVE ReplaceWikilinks(_, _)
ReplaceWikilinks(t, i) ==
  IF i > Len(t) THEN <<>>
  ELSE LET m == WikilinkAt(t, i)
       IN IF m.ok THEN Anchor(m.target, m.display) \o ReplaceWikilinks(t, m.end)
          ELSE <<t[i]>> \o ReplaceWikilinks(t, i + 1)

convertWikilinks(text) == ReplaceWikilinks(text, 1)

\* /!\[\[([^\]]+)\]\]/ tried at index i
ImageAt(t, i) ==
  IF ~(IsChar(t, i, "!") /\ IsChar(t, i + 1, "[") /\ IsChar(t, i + 2, "["))
  THEN [ok |-> FALSE, end |-> 0, imagePath |-> <<>>]
  ELSE LET e == RunEnd(t, i + 3, {"]"})
       IN IF e > i + 3 /\ IsChar(t, e, "]") /\ IsChar(t, e + 1, "]")
          THEN [ok |-> TRUE, end |-> e + 2, imagePath |-> SubSeq(t, i + 3, e - 1)]
          ELSE [ok |-> FALSE, end |-> 0, imagePath |-> <<>>]

\* the replacement callback of convertImages. Within the text lengths of
\* SpecRender no imagePath holds a tag written by convertWikilinks.
ImgElement(imagePath) ==
  "<img src=\"" \o ConcatStr(escapeHtml(imagePath)) \o "\" alt=\""
    \o ConcatStr(escapeHtml(imagePath)) \o "\" style=\"max-width: 100%;\">"

RECURSIVE ReplaceImages(_, _)
ReplaceImages(t, i) ==
  IF i > Len(t) THEN <<>>
  ELSE LET m == ImageAt(t, i)
       IN IF m.ok THEN <<ImgElement(m.imagePath)>> \o ReplaceImages(t, m.end)
          ELSE <<t[i]>> \o ReplaceImages(t, i + 1)

convertImages(text) == ReplaceImages(text, 1)

\* /^>\s*\[!(\w+)\]\s*(.*)$/gm: a header is a line that begins with '>';
\* the replacement opens a div for it
convertCallouts(text) ==
  LET e == RunEnd(text, 4, {"]"})
      title == SubSeq(text, e + 1, Len(text))
  IN IF IsChar(text, 1, ">") /\ IsChar(text, 2, "[") /\ IsChar(text, 3, "!")
        /\ e > 4 /\ e <= Len(text)
     THEN <<"<div class=\"callout callout-" \o ConcatStr(SubSeq(text, 4, e - 1))
            \o "\">">>
          \o (IF title = <<>> THEN <<>>
              ELSE <<"<strong>">> \o escapeHtml(title) \o <<"</strong><br>">>)
     ELSE text

\* marked.parse on one line of text: a paragraph; a bare '&' is written as
\* an entity, raw tags pass through
markdownToHtmlChars(text) ==
  <<"<p>">> \o [i \in 1..Len(text) |-> IF text[i] = "&" THEN "&amp;" ELSE text[i]]
    \o <<"</p>\n">>

\* processObsidianSyntax: wikilinks, then images, then callouts, then markdown
processObsidianSyntaxChars(text) ==
  markdownToHtmlChars(convertCallouts(convertImages(convertWikilinks(text))))

\* ----------------------------------------------------- parseFlashcardFile
MakeCards(raw, relativePath, deck, baseTags) ==
  [k \in 1..Len(raw) |->
    [uid |-> generateUid(raw[k].front, raw[k].back, relativePath),
     front |-> processObsidianSyntax(raw[k].front),
     back |-> processObsidianSyntax(raw[k].back),
     deck |-> deck,
     tags |-> baseTags,
     sourceFile |-> relativePath,
     sourceLine |-> raw[k].line]]

\* the strategies tried in another order: callout before separator
parseFlashcardContentCalloutFirst(body, startLine, relativePath, deck, frontmatter) ==
  LET baseTags == normalizeTagsArray(frontmatter.tags)
      separatorCards == parseSeparatorFormat(body, startLine)
      calloutCards == parseCalloutFormat(body, startLine)
      headingCards == parseHeadingFormat(body, startLine)
  IN IF Len(calloutCards) > 0
     THEN MakeCards(calloutCards, relativePath, deck, baseTags)
     ELSE IF Len(separatorCards) > 0
     THEN MakeCards(separatorCards, relativePath, deck, baseTags)
     ELSE MakeCards(headingCards, relativePath, deck, baseTags)

parseFlashcardContent(body, startLine, relativePath, deck, frontmatter) ==
  LET baseTags == normalizeTagsArray(frontmatter.tags)
      separatorCards == parseSeparatorFormat(body, startLine)
      calloutCards == parseCalloutFormat(body, startLine)
      headingCards == parseHeadingFormat(body, startLine)
  IN IF Len(separatorCards) > 0
     THEN MakeCards(separatorCards, relativePath, deck, baseTags)
     ELSE IF Len(calloutCards) > 0
     THEN MakeCards(calloutCards, relativePath, deck, baseTags)
     ELSE MakeCards(headingCards, relativePath, deck, baseTags)

parseFlashcardFile(doc, relativePath) ==
  LET frontmatter == ValidateFrontmatter(doc.meta)
      deck == resolveDeck(frontmatter)
  IN parseFlashcardContent(doc.body, getContentStartLine(doc), relativePath,
                           deck, frontmatter)

\* ------------------------------------------------------------------ paths
\* A path is a sequence of characters; node:path (posix) is modelled on it.
PathChars == {"/", ".", "v", "a"}

\* config.vaultPath
vaultPath == <<"/", "v">>

isAbsolute(p) == Len(p) > 0 /\ p[1] = "/"

\* s.startsWith(prefix)
StartsWith(s, prefix) ==
  Len(s) >= Len(prefix) /\ SubSeq(s, 1, Len(prefix)) = prefix

\* p.split('/') without the empty segments
RECURSIVE SplitSegments(_, _, _)
SplitSegments(p, cur, acc) ==
  IF p = <<>> THEN (IF cur = <<>> THEN acc ELSE Append(acc, cur))
  ELSE IF Head(p) = "/"
  THEN SplitSegments(Tail(p), <<>>, IF cur = <<>> THEN acc ELSE Append(acc, cur))
  ELSE SplitSegments(Tail(p), Append(cur, Head(p)), acc)

\* '.' is dropped and '..' removes the segment before it (none at the root)
RECURSIVE NormalizeSegments(_, _)
NormalizeSegments(segs, acc) ==
  IF segs = <<>> THEN acc
  ELSE LET seg == Head(segs)
       IN IF seg = <<".">> THEN NormalizeSegments(Tail(segs), acc)
          ELSE IF seg = <<".", ".">>
          THEN NormalizeSegments(Tail(segs),
                 IF acc = <<>> THEN acc ELSE SubSeq(acc, 1, Len(acc) - 1))
          ELSE NormalizeSegments(Tail(segs), Append(acc, seg))

\* the segments an absolute path resolves to
ResolveSegments(p) == NormalizeSegments(SplitSegments(p, <<>>, <<>>), <<>>)

RECURSIVE JoinSegments(_)
JoinSegments(segs) ==
  IF segs = <<>> THEN <<>> ELSE <<"/">> \o Head(segs) \o JoinSegments(Tail(segs))

\* path.normalize of an absolute path; a trailing slash is kept
normalizeAbsolute(p) ==
  LET segs == ResolveSegments(p)
  IN IF segs = <<>> THEN <<"/">>
     ELSE JoinSegments(segs) \o (IF p[Len(p)] = "/" THEN <<"/">> ELSE <<>>)

\* path.join(base, rel) for an absolute base
join(base, rel) == normalizeAbsolute(base \o <<"/">> \o rel)

\* isAbsolute(filePath) ? filePath : join(config.vaultPath, filePath)
ResolveFullPath(filePath) ==
  IF isAbsolute(filePath) THEN filePath ELSE join(vaultPath, filePath)

\* the handlers' security check: fullPath.startsWith(config.vaultPath)
PassesVaultCheck(fullPath) == StartsWith(fullPath, vaultPath)

\* --------------------------------------------------------- the remote store
\* The Anki collection behind AnkiConnect: notes by id, the decks, and whether
\* the ObsidianFlashcard model exists.  A note's tag list is held in two parts,
\* the tags that start with 'obsidian-uid::' (uidTags, by identity) and the
\* others (labels); card labels are taken not to start with that prefix.
EmptyStore == [notes |-> <<>>, decks |-> {}, modelExists |-> FALSE]

NoteIdsOf(st) == DOMAIN st.notes

Min(S) == CHOOSE x \in S : \A y \in S : x <= y

\* A remote call either succeeds, or fails without effect, or (a mutating call
\* whose response is lost) fails after the store applied it.
\* fail names the call that fails, "none" when none does.
CardCalls ==
  {"findNotes", "addNote", "updateNoteFields", "getNoteTags", "removeTags", "addTags"}

\* a findNoteByUid that never finds: the query misses the identity tag
findNoteByUidNeverFinds(st, uid) == 0

\* findNotes 'tag:obsidian-uid::<uid>', then noteIds[0] or null (0 here)
findNoteByUid(st, uid) ==
  LET noteIds == {n \in NoteIdsOf(st) : uid \in st.notes[n].uidTags}
  IN IF noteIds = {} THEN 0 ELSE Min(noteIds)

\* `<a href="obsidian://open?vault=..&file=..&line=..">View in Obsidian</a>`
buildSourceLink(card) == [file |-> card.sourceFile, line |-> card.sourceLine]

NoteFields(card) ==
  [Front |-> card.front, Back |-> card.back, SourceLink |-> buildSourceLink(card)]

Range(f) == {f[x] : x \in DOMAIN f}

\* a note built without its identity tag
NewNoteUntagged(card) ==
  [deck |-> card.deck, fields |-> NoteFields(card), labels |-> Range(card.tags),
   uidTags |-> {}]

\* the note addNote sends: tags [...card.tags, `obsidian-uid::${card.uid}`]
NewNote(card) ==
  [deck |-> card.deck, fields |-> NoteFields(card), labels |-> Range(card.tags),
   uidTags |-> {card.uid}]

\* options allowDuplicate: false, duplicateScope: 'deck': AnkiConnect refuses a
\* note whose first field equals that of a note already in the target deck
IsDuplicate(st, note) ==
  \E n \in NoteIdsOf(st) :
    st.notes[n].deck = note.deck /\ st.notes[n].fields.Front = note.fields.Front

StoreWithNote(st, note) == [st EXCEPT !.notes = Append(@, note)]

\* addNote: [store, ok, noteId, calls]
addNote(st, card, fail, applied) ==
  LET note == NewNote(card)
      added == StoreWithNote(st, note)
  IN IF IsDuplicate(st, note) \/ note.deck \notin st.decks
     THEN [store |-> st, ok |-> FALSE, noteId |-> 0, calls |-> {"addNote"}]
     ELSE IF fail = "addNote"
     THEN [store |-> IF applied THEN added ELSE st, ok |-> FALSE, noteId |-> 0,
           calls |-> {"addNote"}]
     ELSE [store |-> added, ok |-> TRUE, noteId |-> Len(added.notes),
           calls |-> {"addNote"}]

\* an updateNote that removes no label
StaleLabelsNone(note, card) == {}

\* the labels updateNote removes: on the note, not in newTags, no identity tag
StaleLabels(note, card) == note.labels \ Range(card.tags)

\* updateNote: [store, ok, calls]
updateNote(st, noteId, card, fail, applied) ==
  LET fieldsSet == [st EXCEPT !.notes[noteId].fields = NoteFields(card)]
      stale == StaleLabels(fieldsSet.notes[noteId], card)
      first == CHOOSE t \in stale : TRUE
      removed == [fieldsSet EXCEPT !.notes[noteId].labels = @ \ stale]
      removedFirst == [fieldsSet EXCEPT !.notes[noteId].labels = @ \ {first}]
      tagged == [removed EXCEPT !.notes[noteId].labels = @ \cup Range(card.tags),
                                !.notes[noteId].uidTags = @ \cup {card.uid}]
      removeCalls == IF stale = {} THEN {} ELSE {"removeTags"}
  IN IF fail = "updateNoteFields"
     THEN [store |-> IF applied THEN fieldsSet ELSE st, ok |-> FALSE,
           calls |-> {"updateNoteFields"}]
     ELSE IF fail = "getNoteTags"
     THEN [store |-> fieldsSet, ok |-> FALSE,
           calls |-> {"updateNoteFields", "getNoteTags"}]
     ELSE IF fail = "removeTags" /\ stale # {}
     THEN [store |-> IF applied THEN removedFirst ELSE fieldsSet, ok |-> FALSE,
           calls |-> {"updateNoteFields", "getNoteTags", "removeTags"}]
     ELSE IF fail = "addTags"
     THEN [store |-> IF applied THEN tagged ELSE removed, ok |-> FALSE,
           calls |-> {"updateNoteFields", "getNoteTags", "addTags"} \cup removeCalls]
     ELSE [store |-> tagged, ok |-> TRUE,
           calls |-> {"updateNoteFields", "getNoteTags", "addTags"} \cup removeCalls]

\* the body of the try block of syncCards for one card:
\* [store, class, noteId, calls, found]; found is what the store held for the
\* identity when the card was looked up
SyncOneCard(st, card, fail, applied) ==
  LET existingNoteId == findNoteByUid(st, card.uid)
      found == \E n \in NoteIdsOf(st) : card.uid \in st.notes[n].uidTags
  IN IF fail = "findNotes"
     THEN [store |-> st, class |-> "error", noteId |-> 0,
           calls |-> {"findNotes"}, found |-> found]
     ELSE IF existingNoteId # 0
     THEN LET u == updateNote(st, existingNoteId, card, fail, applied)
          IN [store |-> u.store, class |-> IF u.ok THEN "updated" ELSE "error",
              noteId |-> existingNoteId, calls |-> {"findNotes"} \cup u.calls,
              found |-> found]
     ELSE LET a == addNote(st, card, fail, applied)
          IN [store |-> a.store, class |-> IF a.ok THEN "created" ELSE "error",
              noteId |-> a.noteId, calls |-> {"findNotes"} \cup a.calls,
              found |-> found]

\* ping(): the version call, its failure caught and reported as not connected
pingAlwaysConnected(versionFails) == [connected |-> TRUE]

ping(versionFails) == [connected |-> ~versionFails]

\* =========================================================================
\* State
\* =========================================================================
VARIABLES
  pdoc,     \* parser: the document handed to parseFlashcardFile
  pcards,   \* parser: the cards it returned
  pstate,   \* parser: "input" before the call, then "parsed" or "threw"
  qpath,    \* flashcard_parse: the filePath argument
  qresult,  \* flashcard_parse: "" while pending, then the payload's kind
  fsAccess, \* flashcard_parse: the file-system calls made, [op, path]
  ua,       \* generateUid: a first (front, back, sourceFile)
  ub,       \* generateUid: a second one
  uidA,     \* generateUid: the identity of ua
  uidB,     \* generateUid: the identity of ub
  ustate,   \* generateUid: "input", "perturbed", "pair", then "hashed"
  rtext,    \* processObsidianSyntax: the text handed to it, as characters
  rhtml,    \* processObsidianSyntax: what it returned, as tokens
  rstate,   \* processObsidianSyntax: "input" before the call, then "rendered"
  recordCalls, \* history: the updateFileSyncState calls made, [file, ids]
  docs,     \* the vault: relative path -> [meta, body, readable]
  syncState,\* per document, the anki_sync block of its metadata (note_ids)
  writes,   \* per document, the metadata rewrites made in the current run
  store,    \* the remote store
  pc,       \* flashcard_sync: "idle", "cards" (in the card loop), "done"
  req,      \* flashcard_sync: the arguments [dryRun, files]
  batch,    \* allCards
  idx,      \* 1-based index of the next card of the loop
  result,   \* the SyncResult under construction
  outcome,  \* the payload's kind once done; "rejected": the promise rejected
  calls,    \* the AnkiConnect actions invoked in this run
  trace,    \* history: per processed card [uid, found, failed, class, forced]
  parseThrew, \* history: the listed files whose parse threw in this run
  pingOk,   \* history: whether the version call of this run succeeded
  repeat,   \* history: this run repeats the batch of a clean run just before
  lastClean,\* history: whether the run before ended clean, and its batch
  prevCount,\* history: the store's record count when this run began
  runs,     \* number of sync requests so far
  handlers, \* overlapping requests: each flashcard_sync invocation's position
  outstanding \* overlapping requests: the remote calls awaiting their response

syncVars ==
  <<docs, syncState, writes, store, pc, req, batch, idx, result, outcome, calls,
    trace, parseThrew, pingOk, repeat, lastClean, prevCount, runs>>

vars == <<pdoc, pcards, pstate, qpath, qresult, fsAccess, ua, ub, uidA, uidB, ustate,
          rtext, rhtml, rstate, recordCalls, docs, syncState, writes,
          store, pc, req, batch, idx, result, outcome, calls, trace, parseThrew,
          pingOk, repeat, lastClean, prevCount, runs, handlers, outstanding>>

concVars == <<handlers, outstanding>>

parseVars == <<pdoc, pcards, pstate>>

pathVars == <<qpath, qresult, fsAccess>>

uidVars == <<ua, ub, uidA, uidB, ustate>>

renderVars == <<rtext, rhtml, rstate>>

recVars == <<recordCalls>>

NoTriple == [front |-> <<>>, back |-> <<>>, sourceFile |-> <<>>]

NoUid == [sha256_16 |-> <<>>]

UidIdle ==
  ua = NoTriple /\ ub = NoTriple /\ uidA = NoUid /\ uidB = NoUid /\ ustate = "off"

RenderIdle == rtext = <<>> /\ rhtml = <<>> /\ rstate = "off"

RecIdle == recordCalls = <<>>

Requests == 1..MaxRequests

\* an invocation of the call_tool handler that has not begun
IdleHandler == [pc |-> "idle", cards |-> <<>>, idx |-> 1, decks |-> <<>>, noteId |-> 0, stale |-> {}]

ConcIdle == handlers = [r \in Requests |-> IdleHandler] /\ outstanding = {}

PathIdle == qpath = <<>> /\ qresult = "off" /\ fsAccess = {}

\* ------------------------------------------------------------ the vault
Files == {<<"a">>, <<"b">>}

\* findFlashcardFiles(config): the vault's markdown files, in directory order
findFlashcardFiles == <<(<<"a">>), (<<"b">>)>>

OneCardBody == <<"Question", "---", "Answer">>

SameCardTwiceBody == <<"Question", "---", "Answer", "", "Question", "---", "Answer">>

TwoCardsBody == <<"Question", "---", "Answer", "", "Answer", "---", "Question">>

TaggedBiologyMeta ==
  [present |-> TRUE, wellFormed |-> TRUE, anki_deck |-> "", scope |-> "",
   subject |-> "BIOL", tags |-> <<"t1">>, updated |-> ""]

\* the states a document of the vault is edited into
DocChoices(f) ==
  IF f = <<"a">>
  THEN [meta : {NoMeta, TaggedBiologyMeta},
        body : {OneCardBody, SameCardTwiceBody, TwoCardsBody},
        readable : {TRUE}]
  ELSE [meta : {NoMeta}, body : {OneCardBody}, readable : BOOLEAN]

NoSyncState == [note_ids |-> <<>>, card_count |-> 0]

\* a merge that keeps the new entries only
mergeSyncStateNewOnly(existing, newNoteIds) ==
  [note_ids |-> newNoteIds, card_count |-> Cardinality(DOMAIN newNoteIds)]

\* new Date().toISOString().split('T')[0] at the time of the write
Today == "2026-11-01"

\* writeSyncState on the document's other metadata: frontmatter.updated is set
\* to the day of the write, and the file has a metadata block afterwards
writeSyncStateMeta(meta) == [meta EXCEPT !.present = TRUE, !.updated = Today]

\* mergeSyncState: { ...existingIds, ...newNoteIds } and the number of its keys
mergeSyncState(existing, newNoteIds) ==
  LET merged == [u \in DOMAIN existing.note_ids \cup DOMAIN newNoteIds |->
                   IF u \in DOMAIN newNoteIds THEN newNoteIds[u]
                   ELSE existing.note_ids[u]]
  IN [note_ids |-> merged, card_count |-> Cardinality(DOMAIN merged)]

\* updateFileSyncState: read, merge, write. It is exported by the
\* frontmatter writer; no tool handler calls it.
updateFileSyncState(states, filePath, newNoteIds) ==
  [states EXCEPT ![filePath] = mergeSyncState(@, newNoteIds)]

EmptyResult ==
  [created |-> 0, updated |-> 0, unchanged |-> 0, errors |-> <<>>,
   noteIds |-> <<>>, fileToUids |-> <<>>]

\* everything of the sync run but the vault's documents
RunIdle ==
  /\ syncState = [f \in Files |-> NoSyncState]
  /\ writes = [f \in Files |-> 0]
  /\ store = EmptyStore
  /\ pc = "idle"
  /\ req = [dryRun |-> FALSE, files |-> <<>>]
  /\ batch = <<>>
  /\ idx = 1
  /\ result = EmptyResult
  /\ outcome = ""
  /\ calls = {}
  /\ trace = <<>>
  /\ parseThrew = {}
  /\ pingOk = FALSE
  /\ repeat = FALSE
  /\ lastClean = [clean |-> FALSE, batch |-> <<>>]
  /\ prevCount = 0
  /\ runs = 0

SyncIdle ==
  /\ docs = [f \in Files |-> [meta |-> NoMeta, body |-> OneCardBody, readable |-> TRUE]]
  /\ RunIdle

\* -------------------------------------------------------------------------
\* SpecParse: parseFlashcardFile applied to every document within the bounds
\* -------------------------------------------------------------------------
Bodies == UNION {[1..n -> LineAlphabet] : n \in 1..MaxLines}

BiologyMeta ==
  [present |-> TRUE, wellFormed |-> TRUE, anki_deck |-> "", scope |-> "",
   subject |-> "BIOL", tags |-> <<>>, updated |-> ""]

ParseMetas == {NoMeta, BiologyMeta}

\* gray-matter takes a first line '---' as the opening of a metadata block, so
\* a file without one has a body that starts otherwise
Documents ==
  {d \in [meta : ParseMetas, body : Bodies] :
     d.meta.present \/ d.body[1] # "---"}

ParseIdle == pdoc = [meta |-> NoMeta, body |-> <<"">>] /\ pcards = <<>> /\ pstate = "off"

InitParse ==
  /\ pdoc \in Documents
  /\ pcards = <<>>
  /\ pstate = "input"
  /\ PathIdle
  /\ UidIdle
  /\ RenderIdle
  /\ RecIdle
  /\ ConcIdle
  /\ SyncIdle

ParseFile ==
  /\ pstate = "input"
  /\ pcards' = IF matterThrows(pdoc) THEN <<>> ELSE parseFlashcardFile(pdoc, <<"a">>)
  /\ pstate' = IF matterThrows(pdoc) THEN "threw" ELSE "parsed"
  /\ UNCHANGED <<concVars, pdoc, pathVars, uidVars, renderVars, recVars, syncVars>>

NextParse == ParseFile

SpecParse == InitParse /\ [][NextParse]_vars

\* -------------------------------------------------------------------------
\* SpecMeta: parseFlashcardFile on every metadata block of the sets below
\* -------------------------------------------------------------------------
\* a scope outside the schema's enum, a subject without a table entry, and a
\* subject that names an inherited member of the table object
MetaBlocks ==
  [present : {TRUE}, wellFormed : BOOLEAN, anki_deck : {"", "Custom::Deck"},
   scope : {"", "KS3", "A2"}, subject : {"", "BIOL", "XXXX", "constructor"},
   tags : {<<>>, <<"t1">>}, updated : {""}]

CalloutBodyLines == <<"> [!flashcard]", "> Q: Question", "> A: Answer">>

HeadingBodyLines == <<"## Question", "Answer">>

MetaDocuments ==
  [meta : MetaBlocks \cup {NoMeta},
   body : {<<"Question", "---", "Answer">>, CalloutBodyLines, HeadingBodyLines}]

InitMeta ==
  /\ pdoc \in MetaDocuments
  /\ pcards = <<>>
  /\ pstate = "input"
  /\ PathIdle
  /\ UidIdle
  /\ RenderIdle
  /\ RecIdle
  /\ ConcIdle
  /\ SyncIdle

NextMeta == ParseFile

SpecMeta == InitMeta /\ [][NextMeta]_vars

\* -------------------------------------------------------------------------
\* SpecPath: the flashcard_parse tool on every filePath within the bounds
\* -------------------------------------------------------------------------
FilePaths == UNION {[1..n -> PathChars] : n \in 0..MaxPathLen}

InitPath ==
  /\ qpath \in FilePaths
  /\ qresult = ""
  /\ fsAccess = {}
  /\ ParseIdle
  /\ UidIdle
  /\ RenderIdle
  /\ RecIdle
  /\ ConcIdle
  /\ SyncIdle

\* handleFlashcardParse: exists and throws are what the file system answers
\* for existsSync(fullPath) and whether parseFlashcardFile(fullPath) throws
handleFlashcardParse(filePath, exists, throws) ==
  LET fullPath == ResolveFullPath(filePath)
  IN IF ~PassesVaultCheck(fullPath)
     THEN [result |-> "Security error", access |-> {}]
     ELSE IF ~exists
     THEN [result |-> "File not found",
           access |-> {[op |-> "existsSync", path |-> fullPath]}]
     ELSE [result |-> IF throws THEN "Parse error" ELSE "success",
           access |-> {[op |-> "existsSync", path |-> fullPath],
                       [op |-> "readFileSync", path |-> fullPath]}]

FlashcardParse ==
  /\ qresult = ""
  /\ \E exists \in BOOLEAN, throws \in BOOLEAN :
       LET r == handleFlashcardParse(qpath, exists, throws)
       IN /\ qresult' = r.result
          /\ fsAccess' = r.access
  /\ UNCHANGED <<concVars, qpath, parseVars, uidVars, renderVars, recVars, syncVars>>

NextPath == FlashcardParse

SpecPath == InitPath /\ [][NextPath]_vars

\* -------------------------------------------------------------------------
\* Spec: the flashcard_sync tool against the remote store, run after run,
\* with the documents edited between runs
\* -------------------------------------------------------------------------
\* config.maxCardsPerNote
maxCardsPerNote == 500

\* relative(config.vaultPath, fullPath) of a path inside the vault
RelativeToVault(fullPath) ==
  LET segs == ResolveSegments(fullPath)
      rest == SubSeq(segs, Len(ResolveSegments(vaultPath)) + 1, Len(segs))
  IN IF rest = <<>> THEN <<>> ELSE Tail(JoinSegments(rest))

ResolvesInsideVault(fullPath) ==
  LET segs == ResolveSegments(fullPath)
      root == ResolveSegments(vaultPath)
  IN Len(segs) >= Len(root) /\ SubSeq(segs, 1, Len(root)) = root

\* existsSync(fullPath): the vault holds its documents and nothing else
existsSync(fullPath) ==
  ResolvesInsideVault(fullPath) /\ RelativeToVault(fullPath) \in Files

\* the files arguments tried: none (all documents), listed documents in both
\* orders, a path outside the vault, a path that names no file
FileArgs ==
  {<<>>, <<(<<"a">>)>>, <<(<<"a">>), (<<"b">>)>>, <<(<<"b">>), (<<"a">>)>>,
   <<(<<".", ".", "/", "a">>)>>, <<(<<"v">>)>>}

\* the loop over an explicit files list: [outcome, cards, threw]; outcome "" when
\* every file was collected
RECURSIVE CollectListed(_, _, _)
CollectListed(d, files, cards) ==
  IF files = <<>> THEN [outcome |-> "", cards |-> cards, threw |-> {}]
  ELSE LET filePath == Head(files)
           fullPath == ResolveFullPath(filePath)
           rel == RelativeToVault(fullPath)
       IN IF ~PassesVaultCheck(fullPath)
          THEN [outcome |-> "Security error", cards |-> cards, threw |-> {}]
          ELSE IF ~existsSync(fullPath)
          THEN [outcome |-> "File not found", cards |-> cards, threw |-> {}]
          ELSE IF ~d[rel].readable
          THEN [outcome |-> "Parse error", cards |-> cards, threw |-> {rel}]
          ELSE CollectListed(d, Tail(files), cards \o parseFlashcardFile(d[rel], rel))

\* the loop over all flashcard files: a parse that throws is logged to the
\* console and the file skipped
RECURSIVE CollectAll(_, _, _)
CollectAll(d, files, cards) ==
  IF files = <<>> THEN [outcome |-> "", cards |-> cards, threw |-> {}]
  ELSE LET rel == Head(files)
           rest == CollectAll(d, Tail(files),
                     IF d[rel].readable THEN cards \o parseFlashcardFile(d[rel], rel)
                     ELSE cards)
       IN IF d[rel].readable THEN rest ELSE [rest EXCEPT !.threw = @ \cup {rel}]

CollectCards(d, files) ==
  IF Len(files) > 0 THEN CollectListed(d, files, <<>>)
  ELSE CollectAll(d, findFlashcardFiles, <<>>)

\* new Set(cards.map((c) => c.deck)), in insertion order
RECURSIVE UniqueDecks(_, _)
UniqueDecks(cards, acc) ==
  IF cards = <<>> THEN acc
  ELSE UniqueDecks(Tail(cards),
         IF Head(cards).deck \in Range(acc) THEN acc ELSE Append(acc, Head(cards).deck))

StartFails == {"none", "version", "modelNames", "model", "createDeck"}

\* the failures tried before the card loop: which call fails, for createDeck
\* which one (k), and for a call that changes the store whether the change
\* was made before the failure was reported
StartFaults ==
  {x \in [fail : StartFails, k : 1..2, applied : BOOLEAN] :
     /\ x.fail \in {"none", "version", "modelNames"} => x.k = 1 /\ ~x.applied
     /\ x.fail = "model" => x.k = 1}

\* the failures tried in one iteration of the card loop
CardFaults ==
  {x \in [fail : CardCalls \cup {"none"}, applied : BOOLEAN] :
     x.applied => x.fail \in {"addNote", "updateNoteFields", "removeTags", "addTags"}}

\* ensureNoteModel, then ensureDeck for each deck: [store, ok, calls].
\* fail "createDeck" fails the k-th createDeck call.
EnsureModelAndDecks(st, cards, fail, k, applied) ==
  LET modelCall == IF st.modelExists THEN "updateModelStyling" ELSE "createModel"
      withModel == [st EXCEPT !.modelExists = TRUE]
      decks == UniqueDecks(cards, <<>>)
      deckCalls == IF decks = <<>> THEN {} ELSE {"createDeck"}
      withDecks(n) == [withModel EXCEPT !.decks = @ \cup {decks[j] : j \in 1..n}]
  IN IF fail = "modelNames"
     THEN [store |-> st, ok |-> FALSE, calls |-> {"modelNames"}]
     ELSE IF fail = "model"
     THEN [store |-> IF applied THEN withModel ELSE st, ok |-> FALSE,
           calls |-> {"modelNames", modelCall}]
     ELSE IF fail = "createDeck" /\ k <= Len(decks)
     THEN [store |-> withDecks(IF applied THEN k ELSE k - 1), ok |-> FALSE,
           calls |-> {"modelNames", modelCall, "createDeck"}]
     ELSE [store |-> withDecks(Len(decks)), ok |-> TRUE,
           calls |-> {"modelNames", modelCall} \cup deckCalls]

\* a handler that pings the remote store before it looks at dryRun
BeginSyncPingFirst(d, st, dryRun, files, fail, k, applied) ==
  LET collected == CollectCards(d, files)
      allCards == collected.cards
      pingResult == ping(fail = "version")
      ensured == EnsureModelAndDecks(st, allCards, fail, k, applied)
      stop(kind, cs, st2) ==
        [outcome |-> kind, batch |-> allCards, store |-> st2, calls |-> cs,
         loop |-> FALSE, threw |-> collected.threw, pingOk |-> fail # "version"]
  IN IF collected.outcome # "" THEN stop(collected.outcome, {}, st)
     ELSE IF Len(allCards) > maxCardsPerNote * 100 THEN stop("Too many cards", {}, st)
     ELSE IF ~pingResult.connected THEN stop("Anki not connected", {"version"}, st)
     ELSE IF dryRun THEN stop("dryRun", {"version"}, st)
     ELSE IF ~ensured.ok
     THEN stop("rejected", {"version"} \cup ensured.calls, ensured.store)
     ELSE [outcome |-> "", batch |-> allCards, store |-> ensured.store,
           calls |-> {"version"} \cup ensured.calls, loop |-> TRUE,
           threw |-> collected.threw, pingOk |-> fail # "version"]

\* handleFlashcardSync up to the card loop of syncCards:
\* [outcome, batch, store, calls, loop, threw, pingOk]; loop says whether the
\* card loop is entered
BeginSync(d, st, dryRun, files, fail, k, applied) ==
  LET collected == CollectCards(d, files)
      allCards == collected.cards
      pingResult == ping(fail = "version")
      ensured == EnsureModelAndDecks(st, allCards, fail, k, applied)
      stop(kind, cs, st2) ==
        [outcome |-> kind, batch |-> allCards, store |-> st2, calls |-> cs,
         loop |-> FALSE, threw |-> collected.threw, pingOk |-> fail # "version"]
  IN IF collected.outcome # "" THEN stop(collected.outcome, {}, st)
     ELSE IF Len(allCards) > maxCardsPerNote * 100 THEN stop("Too many cards", {}, st)
     ELSE IF dryRun THEN stop("dryRun", {}, st)
     ELSE IF ~pingResult.connected THEN stop("Anki not connected", {"version"}, st)
     ELSE IF ~ensured.ok
     THEN stop("rejected", {"version"} \cup ensured.calls, ensured.store)
     ELSE [outcome |-> "", batch |-> allCards, store |-> ensured.store,
           calls |-> {"version"} \cup ensured.calls, loop |-> TRUE,
           threw |-> collected.threw, pingOk |-> fail # "version"]

InitSync == ParseIdle /\ PathIdle /\ UidIdle /\ RenderIdle /\ RecIdle /\ ConcIdle /\ SyncIdle

\* a document is edited between two runs
EditDoc(f, d) ==
  /\ pc = "idle"
  /\ runs < MaxRuns
  /\ docs[f] # d
  /\ docs' = [docs EXCEPT ![f] = d]
  /\ UNCHANGED <<concVars, parseVars, pathVars, uidVars, renderVars, recVars, syncState, writes, store, pc, req, batch, idx,
                 result, outcome, calls, trace, parseThrew, pingOk, repeat,
                 lastClean, prevCount, runs>>

\* a flashcard_sync request arrives and runs up to the card loop
StartSync(dryRun, files, fail, k, applied) ==
  /\ pc = "idle"
  /\ runs < MaxRuns
  /\ \E b \in {BeginSync(docs, store, dryRun, files, fail, k, applied)} :
        /\ req' = [dryRun |-> dryRun, files |-> files]
        /\ batch' = b.batch
        /\ store' = b.store
        /\ calls' = b.calls
        /\ outcome' = b.outcome
        /\ pc' = IF b.loop THEN "cards" ELSE "done"
        /\ parseThrew' = b.threw
        /\ pingOk' = b.pingOk
        /\ repeat' = (lastClean.clean /\ b.batch = lastClean.batch)
  /\ idx' = 1
  /\ result' = EmptyResult
  /\ trace' = <<>>
  /\ prevCount' = Len(store.notes)
  /\ writes' = [f \in Files |-> 0]
  /\ runs' = runs + 1
  /\ UNCHANGED <<concVars, parseVars, pathVars, uidVars, renderVars, recVars, docs, syncState, lastClean>>

Put(f, key, val) == [x \in DOMAIN f \cup {key} |-> IF x = key THEN val ELSE f[x]]

\* the catch block of the card loop: errors.push({uid, error})
RecordErrorDropped(errors, uid) == errors

RecordError(errors, uid) == Append(errors, uid)

\* fileToUids is an object literal, so fileToUids[card.sourceFile] also finds
\* the members every object inherits. For a document named 'constructor'
\* (likewise toString, valueOf, __proto__, ...) the lookup is truthy, no array
\* is stored, and .push is not a function: the TypeError is thrown inside the
\* try block after the counter and noteIds were updated.
InheritedMemberNames == {<<"c", "o", "n", "s", "t", "r", "u", "c", "t", "o", "r">>}

\* one iteration of the card loop of syncCards
SyncCard(fail, applied) ==
  /\ pc = "cards"
  /\ idx <= Len(batch)
  /\ \E card \in {batch[idx]} : \E r \in {SyncOneCard(store, card, fail, applied)} :
        /\ store' = r.store
        /\ calls' = calls \cup r.calls
        /\ trace' = Append(trace, [uid |-> card.uid, found |-> r.found,
                                   failed |-> r.class = "error"
                                              \/ card.sourceFile \in InheritedMemberNames,
                                   class |-> r.class,
                                   forced |-> fail # "none",
                                   labelsBefore |->
                                     IF findNoteByUid(store, card.uid) = 0 THEN {}
                                     ELSE store.notes[findNoteByUid(store, card.uid)].labels])
        /\ result' =
             IF r.class = "error"
             THEN [result EXCEPT !.errors = RecordError(@, card.uid)]
             ELSE IF card.sourceFile \in InheritedMemberNames
             THEN [result EXCEPT
                     !.created = IF r.class = "created" THEN @ + 1 ELSE @,
                     !.updated = IF r.class = "updated" THEN @ + 1 ELSE @,
                     !.noteIds = Put(@, card.uid, r.noteId),
                     !.errors = RecordError(@, card.uid)]
             ELSE [result EXCEPT
                     !.created = IF r.class = "created" THEN @ + 1 ELSE @,
                     !.updated = IF r.class = "updated" THEN @ + 1 ELSE @,
                     !.noteIds = Put(@, card.uid, r.noteId),
                     !.fileToUids =
                        Put(@, card.sourceFile,
                            Append(IF card.sourceFile \in DOMAIN @
                                   THEN @[card.sourceFile] ELSE <<>>, card.uid))]
  /\ idx' = idx + 1
  /\ UNCHANGED <<concVars, parseVars, pathVars, uidVars, renderVars, recVars, docs, syncState, writes, pc, req, batch,
                 outcome, parseThrew, pingOk, repeat, lastClean, prevCount, runs>>

\* the loop is over: syncCards returns and the handler answers success
FinishSync ==
  /\ pc = "cards"
  /\ idx > Len(batch)
  /\ pc' = "done"
  /\ outcome' = "success"
  /\ UNCHANGED <<concVars, parseVars, pathVars, uidVars, renderVars, recVars, docs, syncState, writes, store, req, batch, idx,
                 result, calls, trace, parseThrew, pingOk, repeat, lastClean,
                 prevCount, runs>>

\* the response has gone to the client and the locals of the call are gone;
\* the handler keeps nothing from one request to the next
Respond ==
  /\ pc = "done"
  /\ pc' = "idle"
  /\ lastClean' =
       IF outcome = "success" /\ result.errors = <<>>
       THEN [clean |-> TRUE, batch |-> batch]
       ELSE [clean |-> FALSE, batch |-> <<>>]
  /\ req' = [dryRun |-> FALSE, files |-> <<>>]
  /\ batch' = <<>>
  /\ idx' = 1
  /\ result' = EmptyResult
  /\ outcome' = ""
  /\ calls' = {}
  /\ trace' = <<>>
  /\ parseThrew' = {}
  /\ pingOk' = FALSE
  /\ repeat' = FALSE
  /\ prevCount' = 0
  /\ UNCHANGED <<concVars, parseVars, pathVars, uidVars, renderVars, recVars, docs, syncState, writes, store, runs>>

Next ==
  \/ \E f \in Files : \E d \in DocChoices(f) : EditDoc(f, d)
  \/ \E files \in FileArgs :
        \/ StartSync(TRUE, files, "none", 1, FALSE)
        \/ \E x \in StartFaults : StartSync(FALSE, files, x.fail, x.k, x.applied)
  \/ \E x \in CardFaults : SyncCard(x.fail, x.applied)
  \/ FinishSync
  \/ Respond

Spec == InitSync /\ [][Next]_vars

\* -------------------------------------------------------------------------
\* SpecUid: generateUid on a triple and on the same triple after one
\* whitespace-only or path-style-only change
\* -------------------------------------------------------------------------
SeqsUpTo(S, n) == UNION {[1..k -> S] : k \in 1..n}

\* front and back texts: a letter, blanks and line feeds
UidTexts == SeqsUpTo({"a", " ", "\n"}, MaxTextLen)

UidBacks == {<<"a">>, <<"a", "\n", "a">>}

UidPaths == {<<"a">>, <<"a", "/", "a">>}

OtherIdle == ParseIdle /\ PathIdle /\ RenderIdle /\ RecIdle /\ ConcIdle /\ SyncIdle

InitUid ==
  /\ ua \in [front : UidTexts, back : UidBacks, sourceFile : UidPaths]
  /\ ub = ua
  /\ uidA = NoUid
  /\ uidB = NoUid
  /\ ustate = "input"
  /\ OtherIdle

InsertAt(t, p, c) == SubSeq(t, 1, p) \o <<c>> \o SubSeq(t, p + 1, Len(t))

\* position p is the end of a line of t: the end of the text, or just before
\* a line ending
IsLineEnd(t, p) == IF p = Len(t) THEN TRUE ELSE t[p + 1] \in {"\n", "\r"}

\* a blank or a tab is added at the end of a line of front or back
AddTrailingBlank(field, p, c) ==
  /\ ustate = "input"
  /\ p \in 0..Len(ua[field])
  /\ IsLineEnd(ua[field], p)
  /\ ub' = [ua EXCEPT ![field] = InsertAt(@, p, c)]
  /\ ustate' = "perturbed"
  /\ UNCHANGED <<concVars, ua, uidA, uidB, parseVars, pathVars, renderVars, recVars, syncVars>>

\* a \n line ending of front or back becomes \r\n
UseCrLf(field, p) ==
  /\ ustate = "input"
  /\ p \in 1..Len(ua[field])
  /\ ua[field][p] = "\n"
  /\ ub' = [ua EXCEPT ![field] = InsertAt(@, p - 1, "\r")]
  /\ ustate' = "perturbed"
  /\ UNCHANGED <<concVars, ua, uidA, uidB, parseVars, pathVars, renderVars, recVars, syncVars>>

\* the path changes in letter case or to backslashes
OtherStyle(c) == CASE c = "a" -> "A" [] c = "/" -> "\\" [] OTHER -> c

ChangePathStyle(p) ==
  /\ ustate = "input"
  /\ p \in 1..Len(ua.sourceFile)
  /\ ub' = [ua EXCEPT !.sourceFile[p] = OtherStyle(@)]
  /\ ustate' = "perturbed"
  /\ UNCHANGED <<concVars, ua, uidA, uidB, parseVars, pathVars, renderVars, recVars, syncVars>>

\* generateUid is called on both triples
HashBoth ==
  /\ ustate \in {"perturbed", "pair"}
  /\ uidA' = generateUidChars(ua.front, ua.back, ua.sourceFile)
  /\ uidB' = generateUidChars(ub.front, ub.back, ub.sourceFile)
  /\ ustate' = "hashed"
  /\ UNCHANGED <<concVars, ua, ub, parseVars, pathVars, renderVars, recVars, syncVars>>

NextUid ==
  \/ \E field \in {"front", "back"}, p \in 0..(MaxTextLen + 1), c \in {" ", "\t"} :
        AddTrailingBlank(field, p, c)
  \/ \E field \in {"front", "back"}, p \in 1..(MaxTextLen + 1) : UseCrLf(field, p)
  \/ \E p \in 1..3 : ChangePathStyle(p)
  \/ HashBoth

SpecUid == InitUid /\ [][NextUid]_vars

\* -------------------------------------------------------------------------
\* SpecUidPair: generateUid on two triples of one file whose texts hold colons
\* -------------------------------------------------------------------------
ColonTexts == SeqsUpTo({"a", ":"}, MaxTextLen)

ColonTriples == [front : ColonTexts, back : ColonTexts, sourceFile : {<<"a">>}]

InitUidPair ==
  /\ ua \in ColonTriples
  /\ ub \in ColonTriples
  /\ uidA = NoUid
  /\ uidB = NoUid
  /\ ustate = "pair"
  /\ OtherIdle

NextUidPair == HashBoth

SpecUidPair == InitUidPair /\ [][NextUidPair]_vars

\* -------------------------------------------------------------------------
\* SpecCards: syncCards on a batch of cards, against the store a run over
\* an earlier batch has left
\* -------------------------------------------------------------------------
\* the versions of document a: its one card as first written, with the answer
\* edited, with the question edited; two sets of tags
CardBodies ==
  {OneCardBody, <<"Question", "---", "Question">>, <<"Answer", "---", "Answer">>}

CardMetas ==
  {[NoMeta EXCEPT !.present = TRUE, !.tags = <<"t1", "t2">>],
   [NoMeta EXCEPT !.present = TRUE, !.tags = <<"t2", "t3">>]}

CardsOfA == {parseFlashcardFile(d, <<"a">>) : d \in [meta : CardMetas, body : CardBodies]}

\* a document named 'constructor', given in the files argument; its deck is
\* another one
CardsOfConstructor ==
  parseFlashcardFile([meta |-> BiologyMeta, body |-> OneCardBody],
                     <<"c", "o", "n", "s", "t", "r", "u", "c", "t", "o", "r">>)

\* allCards: the cards of the listed documents, in the order listed
CardBatches ==
  CardsOfA \cup {CardsOfConstructor}
    \cup {ca \o CardsOfConstructor : ca \in CardsOfA}
    \cup {CardsOfConstructor \o ca : ca \in CardsOfA}

\* the card loop of syncCards run to its end with every call answered
RECURSIVE CardLoop(_, _)
CardLoop(st, cards) ==
  IF cards = <<>> THEN st
  ELSE CardLoop(SyncOneCard(st, Head(cards), "none", FALSE).store, Tail(cards))

\* syncCards with every call answered: the store it leaves
StoreAfterRun(st, cards) ==
  CardLoop(EnsureModelAndDecks(st, cards, "none", 1, FALSE).store, cards)

\* syncCards has ensured the note model and the decks of the batch and enters
\* its card loop; the store is what a run over an earlier batch (or none)
\* has left
InitCards ==
  /\ ParseIdle
  /\ PathIdle
  /\ UidIdle
  /\ RenderIdle
  /\ RecIdle
  /\ ConcIdle
  /\ docs = [f \in Files |-> [meta |-> NoMeta, body |-> OneCardBody, readable |-> TRUE]]
  /\ syncState = [f \in Files |-> NoSyncState]
  /\ writes = [f \in Files |-> 0]
  /\ \E earlier \in CardBatches \cup {<<>>} : \E cards \in CardBatches :
       \E e \in {EnsureModelAndDecks(StoreAfterRun(EmptyStore, earlier), cards,
                                      "none", 1, FALSE)} :
         /\ batch = cards
         /\ store = e.store
         /\ calls = {"version"} \cup e.calls
         /\ prevCount = Len(e.store.notes)
  /\ pc = "cards"
  /\ req = [dryRun |-> FALSE, files |-> <<>>]
  /\ idx = 1
  /\ result = EmptyResult
  /\ outcome = ""
  /\ trace = <<>>
  /\ parseThrew = {}
  /\ pingOk = TRUE
  /\ repeat = FALSE
  /\ lastClean = [clean |-> FALSE, batch |-> <<>>]
  /\ runs = 1

NextCards ==
  \/ \E x \in CardFaults : SyncCard(x.fail, x.applied)
  \/ FinishSync

SpecCards == InitCards /\ [][NextCards]_vars

\* -------------------------------------------------------------------------
\* SpecConc: flashcard_sync requests that reach the server while another is
\* still running. The call_tool handler is an async function; nothing in it
\* or in handleFlashcardSync queues requests, and every request builds its
\* own AnkiClient, so an invocation runs up to its next await and the event
\* loop is then free to start or resume another.
\* -------------------------------------------------------------------------
\* the card loop goes on to the next card, or syncCards returns
NextCard(h) ==
  IF h.idx < Len(h.cards)
  THEN [h EXCEPT !.pc = "findNotes", !.idx = @ + 1, !.noteId = 0, !.stale = {}]
  ELSE [h EXCEPT !.pc = "done"]

\* the response to the call an invocation awaits has arrived: the store
\* after the call, and the invocation at its next await (pc names the call
\* it has issued) or at its return
AfterResponse(h, st) ==
  LET card == h.cards[h.idx]
      stay(h2) == [store |-> st, handler |-> h2]
  IN CASE h.pc = "version" -> stay([h EXCEPT !.pc = "modelNames"])
       [] h.pc = "modelNames" ->
            stay([h EXCEPT !.pc = IF st.modelExists THEN "updateModelStyling"
                                  ELSE "createModel"])
       [] h.pc = "createModel" ->
            \* the store refuses a second model of the name; the rejection
            \* is outside the per-card try block and ends syncCards
            IF st.modelExists THEN stay([h EXCEPT !.pc = "done"])
            ELSE [store |-> [st EXCEPT !.modelExists = TRUE],
                  handler |-> [h EXCEPT !.pc = "createDeck"]]
       [] h.pc = "updateModelStyling" -> stay([h EXCEPT !.pc = "createDeck"])
       [] h.pc = "createDeck" ->
            [store |-> [st EXCEPT !.decks = @ \cup {Head(h.decks)}],
             handler |-> [h EXCEPT !.decks = Tail(@),
                                   !.pc = IF Tail(h.decks) = <<>> THEN "findNotes"
                                          ELSE "createDeck"]]
       [] h.pc = "findNotes" ->
            LET existingNoteId == findNoteByUid(st, card.uid)
            IN stay([h EXCEPT !.noteId = existingNoteId,
                              !.pc = IF existingNoteId # 0 THEN "updateNoteFields"
                                     ELSE "addNote"])
       [] h.pc = "addNote" ->
            [store |-> addNote(st, card, "none", FALSE).store, handler |-> NextCard(h)]
       [] h.pc = "updateNoteFields" ->
            [store |-> [st EXCEPT !.notes[h.noteId].fields = NoteFields(card)],
             handler |-> [h EXCEPT !.pc = "getNoteTags"]]
       [] h.pc = "getNoteTags" ->
            LET stale == StaleLabels(st.notes[h.noteId], card)
            IN stay([h EXCEPT !.stale = stale,
                              !.pc = IF stale = {} THEN "addTags" ELSE "removeTags"])
       [] h.pc = "removeTags" ->
            LET tag == CHOOSE t \in h.stale : TRUE
            IN [store |-> [st EXCEPT !.notes[h.noteId].labels = @ \ {tag}],
                handler |-> [h EXCEPT !.stale = @ \ {tag},
                                      !.pc = IF h.stale = {tag} THEN "addTags"
                                             ELSE "removeTags"]]
       [] h.pc = "addTags" ->
            [store |-> [st EXCEPT !.notes[h.noteId].labels = @ \cup Range(card.tags),
                                  !.notes[h.noteId].uidTags = @ \cup {card.uid}],
             handler |-> NextCard(h)]

\* the stores the requests may find: empty, or left by an earlier run
ConcStores == {EmptyStore} \cup {StoreAfterRun(EmptyStore, cards) : cards \in CardsOfA}

InitConc ==
  /\ ParseIdle
  /\ PathIdle
  /\ UidIdle
  /\ RenderIdle
  /\ RecIdle
  /\ docs = [f \in Files |-> [meta |-> NoMeta, body |-> OneCardBody, readable |-> TRUE]]
  /\ syncState = [f \in Files |-> NoSyncState]
  /\ writes = [f \in Files |-> 0]
  /\ store \in ConcStores
  /\ pc = "idle"
  /\ req = [dryRun |-> FALSE, files |-> <<>>]
  /\ batch = <<>>
  /\ idx = 1
  /\ result = EmptyResult
  /\ outcome = ""
  /\ calls = {}
  /\ trace = <<>>
  /\ parseThrew = {}
  /\ pingOk = FALSE
  /\ repeat = FALSE
  /\ lastClean = [clean |-> FALSE, batch |-> <<>>]
  /\ prevCount = 0
  /\ runs = 0
  /\ handlers = [r \in Requests |-> IdleHandler]
  /\ outstanding = {}

\* a flashcard_sync request reaches the handler: it collects the cards of
\* the listed document and awaits ping(), the version call
Arrive(r, cards) ==
  /\ handlers[r].pc = "idle"
  /\ handlers' = [handlers EXCEPT ![r] = [IdleHandler EXCEPT !.pc = "version",
                                                             !.cards = cards,
                                                             !.decks = UniqueDecks(cards, <<>>)]]
  /\ outstanding' = outstanding \cup {[request |-> r, action |-> "version"]}
  /\ UNCHANGED <<parseVars, pathVars, uidVars, renderVars, recVars, syncVars>>

\* the response to the call request r awaits arrives; the invocation runs to
\* its next await, issuing the next call, or returns
Complete(r) ==
  /\ handlers[r].pc \notin {"idle", "done"}
  /\ \E a \in {AfterResponse(handlers[r], store)} :
       /\ store' = a.store
       /\ handlers' = [handlers EXCEPT ![r] = a.handler]
       /\ outstanding' =
            (outstanding \ {[request |-> r, action |-> handlers[r].pc]})
              \cup (IF a.handler.pc = "done" THEN {}
                    ELSE {[request |-> r, action |-> a.handler.pc]})
  /\ UNCHANGED <<parseVars, pathVars, uidVars, renderVars, recVars, docs, syncState,
                 writes, pc, req, batch, idx, result, outcome, calls, trace,
                 parseThrew, pingOk, repeat, lastClean, prevCount, runs>>

NextConc ==
  \/ \E r \in Requests : \E cards \in CardsOfA : Arrive(r, cards)
  \/ \E r \in Requests : Complete(r)

SpecConc == InitConc /\ [][NextConc]_vars

\* -------------------------------------------------------------------------
\* SpecRecord: updateFileSyncState called again and again on the documents
\* -------------------------------------------------------------------------
MaxRecordCalls == 3

RecordUids == {[sha256_16 |-> <<"u1">>], [sha256_16 |-> <<"u2">>]}

RecordHandles == {1, 2}

\* the newNoteIds arguments: a map from some identities to note ids
NoteIdMaps == UNION {[D -> RecordHandles] : D \in SUBSET RecordUids}

\* a document with an updated field of its own
DatedMeta == [BiologyMeta EXCEPT !.updated = "2020-01-01"]

InitRecord ==
  /\ ParseIdle
  /\ PathIdle
  /\ UidIdle
  /\ RenderIdle
  /\ RecIdle
  /\ ConcIdle
  /\ docs \in [Files -> [meta : {NoMeta, DatedMeta}, body : {OneCardBody},
                          readable : {TRUE}]]
  /\ RunIdle

\* updateFileSyncState(filePath, newNoteIds): readSyncState, mergeSyncState,
\* writeSyncState (one rewrite of the document's metadata)
RecordSync(f, newNoteIds) ==
  /\ Len(recordCalls) < MaxRecordCalls
  /\ syncState' = updateFileSyncState(syncState, f, newNoteIds)
  /\ writes' = [writes EXCEPT ![f] = @ + 1]
  /\ docs' = [docs EXCEPT ![f].meta = writeSyncStateMeta(@)]
  /\ recordCalls' = Append(recordCalls, [file |-> f, ids |-> newNoteIds])
  /\ UNCHANGED <<concVars, parseVars, pathVars, uidVars, renderVars, store, pc, req,
                 batch, idx, result, outcome, calls, trace, parseThrew, pingOk,
                 repeat, lastClean, prevCount, runs>>

NextRecord == \E f \in Files : \E ids \in NoteIdMaps : RecordSync(f, ids)

SpecRecord == InitRecord /\ [][NextRecord]_vars

\* -------------------------------------------------------------------------
\* SpecRender: processObsidianSyntax on every text of brackets, bars,
\* exclamation marks, ampersands and letters up to MaxRenderLen characters
\* -------------------------------------------------------------------------
RenderChars == {"!", "[", "]", "|", "a", "&"}

RenderTexts == {<<>>} \cup SeqsUpTo(RenderChars, MaxRenderLen)

InitRender ==
  /\ rtext \in RenderTexts
  /\ rhtml = <<>>
  /\ rstate = "input"
  /\ ParseIdle
  /\ PathIdle
  /\ UidIdle
  /\ RecIdle
  /\ ConcIdle
  /\ SyncIdle

Render ==
  /\ rstate = "input"
  /\ rhtml' = processObsidianSyntaxChars(rtext)
  /\ rstate' = "rendered"
  /\ UNCHANGED <<concVars, rtext, parseVars, pathVars, uidVars, recVars, syncVars>>

NextRender == Render

SpecRender == InitRender /\ [][NextRender]_vars

\* =========================================================================
\* Claims
\* =========================================================================
HasSeparatorLine(body) == \E k \in 1..Len(body) : IsSeparator(body[k])

HasCalloutLine(body) == \E k \in 1..Len(body) : IsCalloutOpen(body[k])

HasH2Line(body) == \E k \in 1..Len(body) : IsH2(body[k])

AllThreeMarkers(body) ==
  HasSeparatorLine(body) /\ HasCalloutLine(body) /\ HasH2Line(body)

\* what one strategy alone would have returned for the parsed document
StrategyCards(raw) ==
  MakeCards(raw, <<"a">>, resolveDeck(ValidateFrontmatter(pdoc.meta)),
            normalizeTagsArray(ValidateFrontmatter(pdoc.meta).tags))

SeparatorOnly == StrategyCards(parseSeparatorFormat(pdoc.body, getContentStartLine(pdoc)))

CalloutOnly == StrategyCards(parseCalloutFormat(pdoc.body, getContentStartLine(pdoc)))

HeadingOnly == StrategyCards(parseHeadingFormat(pdoc.body, getContentStartLine(pdoc)))

\* C6 as stated: a body holding a separator line, a flashcard callout and an H2
\* heading is parsed to exactly the separator strategy's cards, none of them a
\* card of the callout or heading strategy.
C6_SeparatorAlwaysWins ==
  (pstate = "parsed" /\ AllThreeMarkers(pdoc.body))
    => /\ pcards = SeparatorOnly
       /\ Range(pcards) \cap (Range(CalloutOnly) \cup Range(HeadingOnly)) = {}

\* C6 amended: with all three markers present, the separator strategy's cards
\* are returned alone whenever that strategy yields at least one card; when it
\* yields none the callout strategy's cards are returned if there are any, and
\* otherwise the heading strategy's.
C6_FirstYieldingStrategyWins ==
  (pstate = "parsed" /\ AllThreeMarkers(pdoc.body))
    => IF Len(SeparatorOnly) > 0
       THEN /\ pcards = SeparatorOnly
            /\ Range(pcards) \cap (Range(CalloutOnly) \cup Range(HeadingOnly)) = {}
       ELSE IF Len(CalloutOnly) > 0
       THEN /\ pcards = CalloutOnly
            /\ Range(pcards) \cap Range(HeadingOnly) = {}
       ELSE pcards = HeadingOnly

\* C6 witness: all three markers, the separator strategy wins although the
\* callout strategy would have produced a card too.
C6_Witness ==
  /\ pstate = "parsed"
  /\ AllThreeMarkers(pdoc.body)
  /\ Len(SeparatorOnly) > 0
  /\ Len(CalloutOnly) > 0
  /\ pcards = SeparatorOnly

README_SeparatorExample ==
  [meta |-> BiologyMeta, body |-> <<"Question", "", "---", "", "Answer">>]

\* C7: the document with subject BIOL and body Question / blank / --- / blank /
\* Answer parses to exactly one card, in deck Rina::Biology, whose front renders
\* Question and whose back renders Answer.
C7_SeparatorExampleYieldsOneCard ==
  (pstate = "parsed" /\ pdoc = README_SeparatorExample)
    => /\ Len(pcards) = 1
       /\ pcards[1].deck = "Rina::Biology"
       /\ pcards[1].front = processObsidianSyntax(<<"Question">>)
       /\ pcards[1].back = processObsidianSyntax(<<"Answer">>)

\* C8: a filePath that resolves outside the vault root gets a security error,
\* and neither existsSync nor a read is performed on it.
C8_OutsideVaultRejectedBeforeAccess ==
  (qresult \notin {"", "off"} /\ ~ResolvesInsideVault(ResolveFullPath(qpath)))
    => qresult = "Security error" /\ fsAccess = {}

\* ------------------------------------------------------------------ C1
\* no call of the run's card loop was made to fail
NoCallForced == \A i \in 1..Len(trace) : ~trace[i].forced

\* a completed run that repeats the batch of the clean run just before it
RepeatedRunDone == pc = "done" /\ outcome = "success" /\ repeat

\* C1: a second applySync run over the unchanged cards of a first run that
\* completed with an empty error list reports created = 0 and leaves the
\* store's record count as the first run left it; every card whose remote
\* calls are not made to fail is classified updated, so a run without such
\* failures classifies all of them updated
C1_SecondRunOnlyUpdates ==
  RepeatedRunDone =>
    /\ result.created = 0
    /\ Len(store.notes) = prevCount
    /\ result.updated + Len(result.errors) = Len(batch)
    /\ NoCallForced => result.updated = Len(batch)

C1_Witness ==
  /\ RepeatedRunDone
  /\ NoCallForced
  /\ Len(batch) >= 2
  /\ result.updated = Len(batch)
  /\ prevCount >= 1

\* ------------------------------------------------------------------ C2
ErrorUids == Range(result.errors)

CountClass(c) == Cardinality({i \in 1..Len(trace) : trace[i].class = c})

\* C2: when syncCards returns, every card of the batch has been processed;
\* a card for which a remote call failed has its identity in the errors
\* list, and every other card is counted created when no record carried its
\* identity tag at lookup and updated when one did
C2_CardFailureIsolated ==
  (pc = "done" /\ outcome = "success") =>
    /\ Len(trace) = Len(batch)
    /\ \A i \in 1..Len(trace) :
         /\ trace[i].uid = batch[i].uid
         /\ trace[i].failed => trace[i].uid \in ErrorUids
         /\ ~trace[i].failed =>
              trace[i].class = IF trace[i].found THEN "updated" ELSE "created"
    /\ result.created = CountClass("created")
    /\ result.updated = CountClass("updated")
    /\ Len(result.errors) = CountClass("error")

C2_Witness ==
  /\ pc = "done"
  /\ outcome = "success"
  /\ \E i, j \in 1..Len(trace) :
       /\ i < j
       /\ trace[i].failed /\ trace[i].forced
       /\ ~trace[j].failed /\ ~trace[j].found
       /\ trace[i].uid # trace[j].uid
  /\ result.created = 1

\* ------------------------------------------------------------------ C3
\* C3: when the version call of ping fails, the run ends with 'Anki not
\* connected' and version is the only remote action the run has invoked
C3_FailedPingStopsRun ==
  ("version" \in calls /\ ~pingOk) =>
    /\ pc = "done"
    /\ outcome = "Anki not connected"
    /\ calls = {"version"}
    /\ Len(store.notes) = prevCount

C3_Witness ==
  /\ pc = "done"
  /\ outcome = "Anki not connected"
  /\ ~pingOk
  /\ ~req.dryRun
  /\ Len(batch) >= 1

\* ------------------------------------------------------------------ C4
\* C4: after an applySync run in which cards of a document were created or
\* updated, the document's metadata block has been rewritten exactly once in
\* the run and its note_ids mapping has an entry for each of those cards
C4_MetadataRewrittenOnce ==
  (pc = "done" /\ outcome = "success") =>
    \A f \in DOMAIN result.fileToUids :
      /\ writes[f] = 1
      /\ \A i \in 1..Len(result.fileToUids[f]) :
           result.fileToUids[f][i] \in DOMAIN syncState[f].note_ids

\* ------------------------------------------------------------------ C5
\* C5: at most one record of the remote store carries the identity tag of
\* any given identity, whatever runs, edits and failed calls came before
C5_OneRecordPerIdentity ==
  \A m, n \in NoteIdsOf(store) :
    m # n => store.notes[m].uidTags \cap store.notes[n].uidTags = {}

C5_Witness ==
  /\ pc = "done"
  /\ outcome = "success"
  /\ runs >= 2
  /\ Len(store.notes) >= 2
  /\ \E i, j \in 1..Len(trace) :
       /\ i < j
       /\ trace[i].uid = trace[j].uid
       /\ trace[i].failed /\ trace[i].forced
       /\ trace[j].found

\* ------------------------------------------------------------------ C9
\* C9: handleFlashcardSync never rejects: every run ends with a payload
C9_SyncNeverRejects == pc = "done" => outcome # "rejected"

\* ------------------------------------------------------------------ C10
\* C10: with an explicit files list, a listed file whose parse throws is
\* excluded and the run goes on with the cards of the other listed files
C10_ListedParseFailureIsolated ==
  (pc = "done" /\ Len(req.files) > 0 /\ parseThrew # {}) =>
    /\ outcome # "Parse error"
    /\ \A i \in 1..Len(batch) : batch[i].sourceFile \notin parseThrew

\* ------------------------------------------------------------------ C11
\* the files a flashcard_sync payload names as failed: the 'Parse error'
\* payload carries the file; the success, dry-run and 'Anki not connected'
\* payloads carry no file, and result.errors holds card identities only
PayloadFiles == IF outcome = "Parse error" THEN parseThrew ELSE {}

\* C11: when flashcard_sync goes over all documents of the folder and the
\* parse of one of them throws, the payload names that failure
C11_FolderParseFailureReported ==
  (pc = "done" /\ Len(req.files) = 0) => parseThrew \subseteq PayloadFiles

\* ------------------------------------------------------------------ C12
\* C12: generateUid returns the same identity after a blank or tab is added
\* at the end of any line of front or back, after a \n line ending is
\* replaced with \r\n, and after the path changes only in letter case or
\* slash style
C12_IdentityIgnoresTrailingBlanks == ustate = "hashed" => uidA = uidB

\* ------------------------------------------------------------------ C13
\* the normalized triple of a (front, back, sourceFile)
NormalizedTriple(t) ==
  [front |-> normalizeContentChars(t.front), back |-> normalizeContentChars(t.back),
   sourceFile |-> normalizePath(t.sourceFile)]

\* C13: two triples that differ after normalization never give generateUid
\* the same string to hash
C13_HashInputInjective ==
  (ustate = "hashed" /\ NormalizedTriple(ua) # NormalizedTriple(ub))
    => uidA.sha256_16 # uidB.sha256_16

\* ------------------------------------------------------------------ C15
\* the line rawLine of the file is where a front text with first line first
\* begins: the line itself, the text of an H2 heading, or the text after Q:
FrontBeginsOn(rawLine, first) ==
  \/ rawLine = first
  \/ IsH2(rawLine) /\ HeadingText(rawLine) = first
  \/ /\ StartsWithQuote(rawLine)
     /\ IsQuestionMarker(QuoteContent(rawLine))
     /\ AfterMarker(QuoteContent(rawLine)) = first

\* the first line of the front text a card was rendered from
FirstFrontLine(card) == card.front[2]

CalloutWon == Len(SeparatorOnly) = 0 /\ Len(CalloutOnly) > 0

\* line n of the file opens a flashcard callout whose quoted lines hold, further
\* down, the Q: line that starts the front text
CalloutHeaderOf(raw, n, first) ==
  /\ IsCalloutOpen(raw[n])
  /\ \E j \in (n + 1)..Len(raw) :
       /\ FrontBeginsOn(raw[j], first)
       /\ \A m \in (n + 1)..j : StartsWithQuote(raw[m])

DeckSegmentNames ==
  {deckPrefix, "KS3", "GCSE", "ALEV", "A2", "Biology", "XXXX", "Custom", "Deck",
   "constructor", "function Object() { [native code] }"}

RECURSIVE JoinDeck(_)
JoinDeck(sg) ==
  IF Len(sg) = 1 THEN sg[1] ELSE sg[1] \o "::" \o JoinDeck(Tail(sg))

SegmentsOf(deck) ==
  {sg \in UNION {[1..n -> DeckSegmentNames] : n \in 1..3} : JoinDeck(sg) = deck}

HasSegment(deck, name) ==
  \E sg \in SegmentsOf(deck) : \E i \in 1..Len(sg) : sg[i] = name

\* C16: every card returned by the parse has a non-empty deck that has the
\* configured deckPrefix as one of its '::'-separated segments, whatever the
\* anki_deck, scope and subject of the metadata block.
C16_DeckContainsPrefix ==
  pstate = "parsed" =>
    \A k \in 1..Len(pcards) :
      pcards[k].deck # "" /\ HasSegment(pcards[k].deck, deckPrefix)

\* C16 amended: every card returned by the parse has a non-empty deck; when
\* the validated metadata has no anki_deck the deck's first segment is the
\* configured deckPrefix, and when it has one the deck is that override and
\* nothing else.
C16_DeckNonEmptyRootedUnlessOverridden ==
  pstate = "parsed" =>
    \A k \in 1..Len(pcards) :
      /\ pcards[k].deck # ""
      /\ IF ValidateFrontmatter(pdoc.meta).anki_deck = ""
         THEN \E sg \in SegmentsOf(pcards[k].deck) : sg[1] = deckPrefix
         ELSE pcards[k].deck = pdoc.meta.anki_deck

C16_Witness ==
  /\ pstate = "parsed"
  /\ Len(pcards) = 1
  /\ pdoc.meta.anki_deck = "Custom::Deck"
  /\ pdoc.meta.scope = "KS3"
  /\ pdoc.meta.subject = "BIOL"
  /\ pcards[1].deck = "Custom::Deck"

\* ---------------------------------------------------------------- C17
\* the deck as the resolution rule words it: the override, else deckPrefix,
\* scope and the table's name for the subject (the code itself when the
\* table has no entry for it)
DeckByRule(frontmatter) ==
  IF frontmatter.anki_deck # "" THEN frontmatter.anki_deck
  ELSE JoinDeck(
         <<deckPrefix>>
         \o (IF frontmatter.scope # "" THEN <<frontmatter.scope>> ELSE <<>>)
         \o (IF frontmatter.subject # ""
             THEN <<SubjectDeckNameOwnKeys(frontmatter.subject)>> ELSE <<>>))

\* C17: resolveDeck returns the anki_deck override verbatim when there is
\* one; otherwise deckPrefix, then the scope if present, then the subject's
\* name from the code table (the raw code when the table has no entry) if
\* present, joined by '::'.
C17_DeckFollowsResolutionRule ==
  pstate = "parsed" =>
    \A k \in 1..Len(pcards) :
      pcards[k].deck = DeckByRule(ValidateFrontmatter(pdoc.meta))

\* ---------------------------------------------------------------- C18
\* a metadata block that is not valid YAML or that breaks the schema
Malformed(meta) ==
  meta.present /\ (~meta.wellFormed \/ meta.scope \notin {"", "KS3", "GCSE", "ALEV"})

\* C18: for every document whose metadata block is malformed, the parse
\* does not throw; it returns the body's cards with empty metadata: the deck
\* is deckPrefix alone and the tags are empty.
C18_MalformedMetadataDegrades ==
  (pstate # "input" /\ Malformed(pdoc.meta)) =>
    /\ pstate = "parsed"
    /\ Len(pcards) >= 1
    /\ \A k \in 1..Len(pcards) :
         pcards[k].deck = deckPrefix /\ pcards[k].tags = <<>>

\* ---------------------------------------------------------------- C20
\* C20: a flashcard_sync request with dryRun = true makes no call to the
\* remote store, not even a ping, and writes no document: the remote store,
\* every document and every recorded sync state are after the call what they
\* were before it, and the handler is done in that one step.
C20_DryRunTouchesNothing ==
  [][(pc = "idle" /\ pc' # "idle" /\ req'.dryRun) =>
       /\ pc' = "done"
       /\ calls' = {}
       /\ store' = store
       /\ docs' = docs
       /\ syncState' = syncState
       /\ \A f \in Files : writes'[f] = 0]_vars

C20_Witness ==
  /\ pc = "done"
  /\ req.dryRun
  /\ outcome = "dryRun"
  /\ Len(batch) >= 1
  /\ Len(store.notes) >= 1
  /\ calls = {}

\* ---------------------------------------------------------------- C19
\* the calls made on document f that passed identity u
CallsWith(f, u) ==
  {i \in 1..Len(recordCalls) :
     recordCalls[i].file = f /\ u \in DOMAIN recordCalls[i].ids}

LastCallWith(f, u) ==
  CHOOSE i \in CallsWith(f, u) : \A j \in CallsWith(f, u) : j <= i

\* C19: after any sequence of updateFileSyncState calls, the note_ids stored
\* for a document hold every identity ever passed in for it, each mapped to
\* the handle of the most recent call that included it, and card_count is the
\* number of entries of the stored mapping.
C19_RecordedStateMerges ==
  \A f \in Files :
    /\ \A u \in RecordUids :
         CallsWith(f, u) # {} =>
           /\ u \in DOMAIN syncState[f].note_ids
           /\ syncState[f].note_ids[u] = recordCalls[LastCallWith(f, u)].ids[u]
    /\ syncState[f].card_count = Cardinality(DOMAIN syncState[f].note_ids)

\* an entry is kept by a later call without it, and another is overwritten
C19_Witness ==
  /\ Len(recordCalls) = 3
  /\ \A i \in 1..3 : recordCalls[i].file = <<"a">>
  /\ DOMAIN recordCalls[1].ids = RecordUids
  /\ \A u \in RecordUids : recordCalls[1].ids[u] = 1
  /\ DOMAIN recordCalls[3].ids = {[sha256_16 |-> <<"u1">>]}
  /\ recordCalls[3].ids[[sha256_16 |-> <<"u1">>]] = 2
  /\ DOMAIN recordCalls[2].ids = {}
  /\ syncState[<<"a">>].note_ids[[sha256_16 |-> <<"u1">>]] = 2
  /\ syncState[<<"a">>].note_ids[[sha256_16 |-> <<"u2">>]] = 1
  /\ syncState[<<"a">>].card_count = 2

\* ---------------------------------------------------------------- C14
\* the paths of the image embeds ![[path]] of a text, read left to right
RECURSIVE EmbedPaths(_, _)
EmbedPaths(t, i) ==
  IF i > Len(t) THEN {}
  ELSE LET m == ImageAt(t, i)
       IN IF m.ok THEN {m.imagePath} \cup EmbedPaths(t, m.end)
          ELSE EmbedPaths(t, i + 1)

\* C14: for every text that holds an image embed ![[path]], the render
\* pipeline outputs an image element whose source and alt text are the
\* HTML-escaped path, and a text that is one embed and nothing else comes
\* out without a link anchor.
C14_EmbedBecomesImage ==
  rstate = "rendered" =>
    \A path \in EmbedPaths(rtext, 1) :
      /\ ImgElement(path) \in Range(rhtml)
      /\ rtext = <<"!", "[", "[">> \o path \o <<"]", "]">> => "</a>" \notin Range(rhtml)

\* ---------------------------------------------------------------- C24
IsTextLine(l) == ~IsBlank(l) /\ ~IsSeparator(l)

\* the 0-based index at which the maximal run of text lines that ends on
\* line i - 1 begins; i when line i - 1 is no text line
RECURSIVE RunStartBefore(_, _)
RunStartBefore(lines, i) ==
  IF i > 0 /\ IsTextLine(At(lines, i - 1)) THEN RunStartBefore(lines, i - 1) ELSE i

\* the 0-based index just after the maximal run of text lines that begins on
\* line i
RECURSIVE RunEndFrom(_, _)
RunEndFrom(lines, i) ==
  IF i < Len(lines) /\ IsTextLine(At(lines, i)) THEN RunEndFrom(lines, i + 1) ELSE i

\* the cards the rule gives, separator line by separator line
RECURSIVE SeparatorCardsByRule(_, _)
SeparatorCardsByRule(lines, i) ==
  IF i >= Len(lines) THEN <<>>
  ELSE LET s == RunStartBefore(lines, i)
           e == RunEndFrom(lines, i + 1)
       IN (IF IsSeparator(At(lines, i)) /\ s < i /\ e > i + 1
           THEN <<[front |-> Slice(lines, s, i), back |-> Slice(lines, i + 1, e)]>>
           ELSE <<>>)
          \o SeparatorCardsByRule(lines, i + 1)

TextsOf(raw) == [k \in 1..Len(raw) |-> [front |-> raw[k].front, back |-> raw[k].back]]

\* C24: for every dash-separator line of the body, parseSeparatorFormat takes
\* as front the maximal run of contiguous non-blank, non-separator lines that
\* ends on the line directly before the separator and as back the maximal
\* such run that starts on the line directly after it, and emits a card if
\* and only if both runs are non-empty; the parse returns these cards.
C24_SeparatorTakesAdjacentRuns ==
  pstate = "parsed" =>
    LET expected == SeparatorCardsByRule(pdoc.body, 0)
    IN /\ TextsOf(parseSeparatorFormat(pdoc.body, getContentStartLine(pdoc))) = expected
       /\ expected # <<>> =>
            /\ Len(pcards) = Len(expected)
            /\ \A k \in 1..Len(expected) :
                 /\ pcards[k].front = processObsidianSyntax(expected[k].front)
                 /\ pcards[k].back = processObsidianSyntax(expected[k].back)

\* ---------------------------------------------------------------- C28
\* the 0-based indices of the lines each emitted card takes as front or back,
\* in the order of emission: the loop of parseSeparatorFormat followed again
RECURSIVE SeparatorSpans(_, _, _)
SeparatorSpans(lines, i, spans) ==
  IF i >= Len(lines) THEN spans
  ELSE IF IsSeparator(At(lines, i)) /\ i > 0
  THEN LET frontStart == FrontStart(lines, i - 1)
           backEnd == BackEnd(lines, i + 1)
       IN SeparatorSpans(lines, backEnd,
            IF ~IsEmptyText(Trim(Slice(lines, frontStart, i)))
               /\ ~IsEmptyText(Trim(Slice(lines, i + 1, backEnd)))
            THEN Append(spans, (frontStart..(i - 1)) \cup ((i + 1)..(backEnd - 1)))
            ELSE spans)
  ELSE SeparatorSpans(lines, i + 1, spans)

\* C28: no body line belongs to the text of two different cards of
\* parseSeparatorFormat: the lines taken as front or back by distinct
\* emitted cards are pairwise disjoint.
C28_SeparatorCardsShareNoLine ==
  pstate = "parsed" =>
    LET spans == SeparatorSpans(pdoc.body, 0, <<>>)
    IN /\ Len(spans) = Len(parseSeparatorFormat(pdoc.body, getContentStartLine(pdoc)))
       /\ spans # <<>> => Len(pcards) = Len(spans)
       /\ \A k, l \in 1..Len(spans) : k # l => spans[k] \cap spans[l] = {}

\* ---------------------------------------------------------------- C27
\* the metadata fields of a document other than its sync state
OtherFields(meta) ==
  [anki_deck |-> meta.anki_deck, scope |-> meta.scope, subject |-> meta.subject,
   tags |-> meta.tags, updated |-> meta.updated]

\* C27: updateFileSyncState changes only the anki_sync field of the
\* document's metadata block: every other metadata field and the document
\* body hold after the call the value they held before it.
C27_RecordLeavesOtherFields ==
  [][\A f \in Files :
       /\ docs'[f].body = docs[f].body
       /\ OtherFields(docs'[f].meta) = OtherFields(docs[f].meta)]_vars

\* ---------------------------------------------------------------- C25
\* syncCards has returned its result
SyncCardsReturned == pc = "done" /\ outcome = "success"

\* C25: on return from syncCards over n cards, created + updated + the
\* length of errors equals n and unchanged is 0, whichever remote calls
\* failed.
C25_EveryCardCountedOnce ==
  SyncCardsReturned =>
    /\ result.created + result.updated + Len(result.errors) = Len(batch)
    /\ result.unchanged = 0

\* ---------------------------------------------------------------- C23
\* the value stored under a key of a result map, nothing when there is none
Lookup(m, key) == IF key \in DOMAIN m THEN m[key] ELSE <<>>

\* the identities of the first k cards of the batch that come from document
\* doc and were created or updated, in input order
RECURSIVE ReconciledUids(_, _)
ReconciledUids(doc, k) ==
  IF k = 0 THEN <<>>
  ELSE IF batch[k].sourceFile = doc /\ trace[k].class \in {"created", "updated"}
       THEN Append(ReconciledUids(doc, k - 1), batch[k].uid)
       ELSE ReconciledUids(doc, k - 1)

\* C23: on return from syncCards, for every source document
\* fileToUids[document] is exactly the sequence of identities of that
\* document's cards that were created or updated in this run, in input order,
\* and noteIds maps each of those identities to a record of the store that
\* carries the identity.
C23_FileToUidsGroupsReconciledCards ==
  SyncCardsReturned =>
    \A k \in 1..Len(batch) :
      LET uids == ReconciledUids(batch[k].sourceFile, Len(batch))
      IN /\ Lookup(result.fileToUids, batch[k].sourceFile) = uids
         /\ \A j \in 1..Len(uids) :
              /\ uids[j] \in DOMAIN result.noteIds
              /\ result.noteIds[uids[j]] \in 1..Len(store.notes)
              /\ uids[j] \in store.notes[result.noteIds[uids[j]]].uidTags

\* ---------------------------------------------------------------- C22
\* the card loop has just handled a card by a successful updateNote
UpdateNoteCompleted ==
  /\ pc = "cards"
  /\ idx <= Len(batch)
  /\ Len(trace') = idx
  /\ trace'[idx].class = "updated"

\* C22: after updateNote completes successfully on a remote record, the
\* record's label set equals the card's labels, its identity tags are those
\* it already had together with this card's identity tag, and every label
\* that was on the record and is absent from the card has been removed.
C22_UpdateNoteDiffsLabels ==
  [][UpdateNoteCompleted =>
       LET card == batch[idx]
           n == findNoteByUid(store, card.uid)
       IN /\ n # 0
          /\ Len(store'.notes) = Len(store.notes)
          /\ store'.notes[n].labels = Range(card.tags)
          /\ store'.notes[n].uidTags = store.notes[n].uidTags \cup {card.uid}
          /\ \A t \in store.notes[n].labels :
               t \notin Range(card.tags) => t \notin store'.notes[n].labels]_vars

\* an update has removed a label, kept one and added one
C22_Witness ==
  \E k \in 1..Len(trace) :
    /\ trace[k].class = "updated"
    /\ trace[k].labelsBefore = {"t1", "t2"}
    /\ Range(batch[k].tags) = {"t2", "t3"}
    /\ store.notes[result.noteIds[batch[k].uid]].labels = {"t2", "t3"}

\* ---------------------------------------------------------------- C26
\* a record of the store carries the identity of the card
HasRecord(card) == \E n \in 1..Len(store.notes) : card.uid \in store.notes[n].uidTags

\* C26: across sync runs the set of record handles in the store only grows,
\* and after a card's question or answer text is edited the record of its
\* former identity remains in the store beside the newly created one: when
\* a run in which every remote call was answered returns, the store holds at
\* least the records it held before the run and a record for every card of
\* the batch.
C26_EditedCardGetsRecordBesideOld ==
  (SyncCardsReturned /\ NoCallForced) =>
    /\ Len(store.notes) >= prevCount
    /\ \A k \in 1..Len(batch) : HasRecord(batch[k])

\* ---------------------------------------------------------------- C21
\* C21: no two remote-store calls issued by the engine are ever outstanding
\* at the same time, also when the server receives a second flashcard_sync
\* request while a first one is still running.
C21_OneCallOutstanding == Cardinality(outstanding) <= 1

====
